---- MODULE Spec2Model ----
(***************************************************************************)
(* Token-bounded hierarchical summarization of chat messages               *)
(* (kankan2351/weiboChatlog): the message chunker, the two-tier summary    *)
(* cache, the time-range parser and the summarization pipelines.           *)
(*                                                                         *)
(* Text is a sequence of one-character strings.  "." stands for the        *)
(* ideographic full stop U+3002, ";" for the fullwidth comma U+FF0C and    *)
(* "," for the ASCII comma.  The sub-word tokenizer (tiktoken) is an       *)
(* external library: its count is modelled as one token per character.     *)
(***************************************************************************)
EXTENDS Integers, Sequences, FiniteSets, TLC

VARIABLES
    \* --- MessageChunker.split_by_tokens (src/src/summarizer/chunker.py)
    messages,       \* the ordered input list, each message [id, content]
    max_tokens,     \* the token budget of one chunk
    chunks,         \* the returned list of chunks
    cpc,            \* "ready" before the call, "done" after it
    \* --- RecursiveSummarizer._parse_time_range (chatbot/summarizer/recursive_sum.py)
    expression,     \* the time-range expression handed to the parser
    parsed,         \* what the parser returned
    ppc,            \* "ready" before the call, "done" after it
    \* --- RecursiveSummarizer.summarize (chatbot/summarizer/recursive_sum.py)
    store,          \* MessageDB: the stored messages, oldest first
    s_cache,        \* SummaryCache (Redis): the set of [key, value] entries
    time_range,     \* the request's time-range expression
    spc,            \* where the request is: start, query, layer1, merge, returned
    s_chunks,       \* chunks returned by _get_messages_chunks
    s_idx,          \* the chunk summarize_layer1 is at
    s_summaries,    \* layer1_summaries
    s_final,        \* final_summary: what _merge_summaries returned
    s_result,       \* what summarize returned
    s_queries,      \* message-store queries made by the request
    s_chunkings,    \* chunking passes made by the request
    s_calls,        \* external summarization calls made by the request
    s_failed,       \* the chunks (by position) whose Layer-1 call raised
    \* --- SummaryCache (src/src/summarizer/cache.py) and its RedisClient
    max_memory_items,   \* capacity of the memory tier
    memory_cache,       \* OrderedDict: [key, value] entries, oldest first
    memory_timestamps,  \* the keys of the dict memory_timestamps
    redis_up,           \* RedisClient.redis is a connection (not None)
    redis_store,        \* the Redis server: key -> value or NoValue
    ctask,              \* the tasks using the cache: [pc, key, value]
    recency,            \* the keys by their last read hit or write, oldest first
    evicted,            \* the keys popped by the latest _add_to_memory
    call,               \* the latest call of a lone caller and what it returned
    \* --- AIInterface.summarize_history (src/src/handlers/ai_interface.py) over
    \* --- RecursiveSummarizer (src/src/summarizer/recursive_sum.py)
    p_sumtok,       \* chunk id -> calculate_tokens(str(its Layer-1 summary))
    p_cache,        \* the SummaryCache's memory tier: [key, value] entries
    p_chunks,       \* chunks: what split_by_tokens returned to the request
    p_pc,           \* idle, layer1, layer2, layer3, done
    p_idx,          \* the position of the loop of the layer at work
    p_summaries,    \* summaries of summarize_layer1 / base_summaries
    p_tasks,        \* tasks of summarize_layer1: [chunk, done, result]
    p_topic,        \* current_topic of summarize_layer2
    p_tokens,       \* current_tokens of summarize_layer2
    p_topics,       \* topic_summaries
    p_result,       \* what summarize_history returned
    p_computed,     \* summaries the request generated instead of reading
    p_prev,         \* the request before: its chunks, its result, did a unit fail
    p_runs,         \* requests started
    \* --- WeiboMonitor (src/chatbot/weibo/monitor.py) and its two tasks
    m_running,          \* _running
    m_monitoring_old,   \* _monitoring_old
    m_processed,        \* processed_messages: the message ids stored
    m_calls,            \* id -> calls of message_db / sqlite_db add_message
    m_failed,           \* id -> calls of them that raised
    m_owner,            \* the task the event loop is running, "none" if none
    m_task,             \* task -> [pc, batch, msg]
    m_count,            \* message_count of monitor_old_messages
    m_polls,            \* requests sent to the server by both tasks
    m_stopped           \* stop() has been called

chunkerVars == <<messages, max_tokens, chunks, cpc>>
parserVars == <<expression, parsed, ppc>>
summarizeVars == <<store, s_cache, time_range, spc, s_chunks, s_idx, s_summaries,
                   s_final, s_result, s_queries, s_chunkings, s_calls, s_failed>>

cacheVars == <<max_memory_items, memory_cache, memory_timestamps, redis_up,
               redis_store, ctask, recency, evicted, call>>

pipelineVars == <<p_sumtok, p_cache, p_chunks, p_pc, p_idx, p_summaries, p_tasks,
                  p_topic, p_tokens, p_topics, p_result, p_computed, p_prev,
                  p_runs>>

monitorVars == <<m_running, m_monitoring_old, m_processed, m_calls, m_failed,
                 m_owner, m_task, m_count, m_polls, m_stopped>>

vars == <<chunkerVars, parserVars, summarizeVars, cacheVars, pipelineVars,
          monitorVars>>

(***************************************************************************)
(* Bounds of the model                                                     *)
(***************************************************************************)
MaxMsgs == 3        \* longest message list handed to the chunker
MaxBudget == 3      \* largest max_tokens handed to the chunker
MaxExprLen == 3     \* longest time-range expression handed to the parser
MaxStoreMsgs == 2   \* most messages held by the message store
MaxCapacity == 2    \* largest max_memory_items of a SummaryCache
NumKeys == 3        \* number of distinct cache keys used
MaxChunks == 2      \* chunks of the message history
MaxRuns == 3        \* summarization requests in a row
NumMsgIds == 2      \* distinct message ids the Weibo server delivers
MaxBatch == 2       \* most messages in one answer of the server
MaxPolls == 3       \* requests the two monitor tasks send to the server
HistoryLimit == 2   \* stands for the 1000 messages of the backfill limit

(***************************************************************************)
(* Text helpers                                                            *)
(***************************************************************************)
Range(s) == {s[i] : i \in 1..Len(s)}

IsSpace(c) == c = " "

RECURSIVE LStrip(_)
LStrip(s) == IF s # <<>> /\ IsSpace(Head(s)) THEN LStrip(Tail(s)) ELSE s

RECURSIVE RStrip(_)
RStrip(s) ==
    IF s # <<>> /\ IsSpace(s[Len(s)]) THEN RStrip(SubSeq(s, 1, Len(s) - 1)) ELSE s

\* str.strip()
Strip(s) == RStrip(LStrip(s))

\* str.split(sep) for one-character separators: the pieces between
\* separators, empty pieces kept (k pieces for k-1 separators).
RECURSIVE SplitAcc(_, _, _, _)
SplitAcc(s, seps, cur, acc) ==
    IF s = <<>> THEN Append(acc, cur)
    ELSE IF Head(s) \in seps
         THEN SplitAcc(Tail(s), seps, <<>>, Append(acc, cur))
         ELSE SplitAcc(Tail(s), seps, Append(cur, Head(s)), acc)

SplitOn(s, seps) == SplitAcc(s, seps, <<>>, <<>>)

\* [part[i:i+n] for i in range(0, len(part), n)]
RECURSIVE FixedCut(_, _)
FixedCut(s, n) ==
    IF s = <<>> THEN <<>>
    ELSE IF Len(s) <= n THEN <<s>>
    ELSE <<SubSeq(s, 1, n)>> \o FixedCut(SubSeq(s, n + 1, Len(s)), n)

RECURSIVE Flatten(_)
Flatten(ss) == IF ss = <<>> THEN <<>> ELSE Head(ss) \o Flatten(Tail(ss))

RECURSIVE SumSeq(_)
SumSeq(s) == IF s = <<>> THEN 0 ELSE Head(s) + SumSeq(Tail(s))

(***************************************************************************)
(* TokenManager                                                            *)
(***************************************************************************)
\* TokenManager.calculate_tokens: len(self.encoder.encode(text))
calculate_tokens(text) == Len(text)

(***************************************************************************)
(* MessageChunker                                                          *)
(***************************************************************************)
CutLen == 100

\* one iteration of the loop of _split_sentence; st = [parts, current_part]
SplitSentenceStep(st, rawpart, maxTok) ==
    LET part == Strip(rawpart) \o <<";">> IN
    IF calculate_tokens(part) > maxTok
    THEN [st EXCEPT !.parts = st.parts \o FixedCut(part, CutLen)]
    ELSE IF calculate_tokens(st.current_part \o part) > maxTok
    THEN [parts |-> IF st.current_part # <<>>
                    THEN Append(st.parts, st.current_part) ELSE st.parts,
          current_part |-> part]
    ELSE [st EXCEPT !.current_part = st.current_part \o part]

RECURSIVE SplitSentenceLoop(_, _, _)
SplitSentenceLoop(st, pieces, maxTok) ==
    IF pieces = <<>> THEN st
    ELSE SplitSentenceLoop(SplitSentenceStep(st, Head(pieces), maxTok),
                           Tail(pieces), maxTok)

\* MessageChunker._split_sentence
_split_sentence(sentence, maxTok) ==
    LET st == SplitSentenceLoop([parts |-> <<>>, current_part |-> <<>>],
                                SplitOn(sentence, {";", ","}), maxTok)
    IN IF st.current_part # <<>> THEN Append(st.parts, st.current_part)
       ELSE st.parts

\* one iteration of the loop of _split_long_message
SplitLongStep(st, raw, maxTok) ==
    IF Strip(raw) = <<>> THEN st
    ELSE LET sentence == raw \o <<".">> IN
         IF calculate_tokens(sentence) > maxTok
         THEN [parts |-> st.parts \o _split_sentence(sentence, maxTok),
               current_part |-> <<>>]
         ELSE IF calculate_tokens(st.current_part \o sentence) > maxTok
         THEN [parts |-> IF st.current_part # <<>>
                         THEN Append(st.parts, st.current_part) ELSE st.parts,
               current_part |-> sentence]
         ELSE [st EXCEPT !.current_part = st.current_part \o sentence]

RECURSIVE SplitLongLoop(_, _, _)
SplitLongLoop(st, sentences, maxTok) ==
    IF sentences = <<>> THEN st
    ELSE SplitLongLoop(SplitLongStep(st, Head(sentences), maxTok),
                       Tail(sentences), maxTok)

\* MessageChunker._split_long_message
_split_long_message(content, maxTok) ==
    LET st == SplitLongLoop([parts |-> <<>>, current_part |-> <<>>],
                            SplitOn(content, {"."}), maxTok)
    IN IF st.current_part # <<>> THEN Append(st.parts, st.current_part)
       ELSE st.parts

\* A chunk is the list of its messages; `forced` records that the chunk was
\* made by force-splitting one oversized message (the code keeps no such
\* mark: it is what the properties about chunks speak of).
MkChunk(msgs, forced) == [msgs |-> msgs, forced |-> forced]

\* the chunks of the fragments of one oversized message (chunker.py 40-44)
FragmentChunks(message, parts) ==
    [k \in 1..Len(parts) |->
        MkChunk(<<[message EXCEPT !.content = parts[k]]>>, TRUE)]

\* chunker.py 33-44: the message alone exceeds the budget
OversizedBranch(st, message, maxTok) ==
    [chunks |-> (IF st.current_chunk # <<>>
                 THEN Append(st.chunks, MkChunk(st.current_chunk, FALSE))
                 ELSE st.chunks)
                \o FragmentChunks(message,
                                  _split_long_message(message.content, maxTok)),
     current_chunk |-> <<>>,
     current_tokens |-> 0]

\* chunker.py 47: would the message overflow the running chunk?
OverflowsM(current_tokens, msg_tokens, maxTok) == msg_tokens >= maxTok

\* the same test closing the running chunk already when the message fills it
OverflowsEarlyM(current_tokens, msg_tokens, maxTok) ==
    current_tokens + msg_tokens >= maxTok

Overflows(current_tokens, msg_tokens, maxTok) ==
    current_tokens + msg_tokens > maxTok

\* chunker.py 48-50: close the running chunk, start a new one with the message
StartNewChunkM(st, message, msg_tokens) ==
    [chunks |-> Append(st.chunks, MkChunk(st.current_chunk, FALSE)),
     current_chunk |-> <<>>,
     current_tokens |-> 0]

StartNewChunk(st, message, msg_tokens) ==
    [chunks |-> Append(st.chunks, MkChunk(st.current_chunk, FALSE)),
     current_chunk |-> <<message>>,
     current_tokens |-> msg_tokens]

\* chunker.py 52-53
AppendToChunk(st, message, msg_tokens) ==
    [st EXCEPT !.current_chunk = Append(st.current_chunk, message),
               !.current_tokens = st.current_tokens + msg_tokens]

\* the body of the for loop of split_by_tokens (chunker.py 28-53)
SplitStep(st, message, maxTok) ==
    LET msg_tokens == calculate_tokens(message.content) IN
    IF msg_tokens > maxTok THEN OversizedBranch(st, message, maxTok)
    ELSE IF Overflows(st.current_tokens, msg_tokens, maxTok)
    THEN StartNewChunk(st, message, msg_tokens)
    ELSE AppendToChunk(st, message, msg_tokens)

RECURSIVE SplitLoop(_, _, _)
SplitLoop(st, msgs, maxTok) ==
    IF msgs = <<>> THEN st
    ELSE SplitLoop(SplitStep(st, Head(msgs), maxTok), Tail(msgs), maxTok)

\* MessageChunker.split_by_tokens
split_by_tokens(msgs, maxTok) ==
    LET st == SplitLoop([chunks |-> <<>>, current_chunk |-> <<>>,
                         current_tokens |-> 0], msgs, maxTok)
    IN IF st.current_chunk # <<>>
       THEN Append(st.chunks, MkChunk(st.current_chunk, FALSE))
       ELSE st.chunks

(***************************************************************************)
(* SummaryCache (src/src/summarizer/cache.py): the bounded memory tier     *)
(* over the RedisClient tier, used by concurrent asyncio tasks.  A task    *)
(* runs alone up to its next await that suspends (asyncio.to_thread in     *)
(* RedisClient); _add_to_memory never suspends.                            *)
(***************************************************************************)
CacheKeys == 1..NumKeys
\* a key is the fingerprint of what was summarized: one value per key
CacheValues == {"v1"}
NoValue == "None"
Tasks == {"t1", "t2"}

MemKeys(mem) == {mem[i].key : i \in 1..Len(mem)}
MemHas(mem, k) == k \in MemKeys(mem)
MemValue(mem, k) == (CHOOSE e \in Range(mem) : e.key = k).value
MemRemove(mem, k) == SelectSeq(mem, LAMBDA e : e.key # k)

\* OrderedDict.move_to_end(key) of a resident key
MoveToEnd(mem, k) ==
    Append(MemRemove(mem, k), [key |-> k, value |-> MemValue(mem, k)])

\* cache.py 85 with > for >=: evict only when over capacity
EvictedCountM(len, cap) == IF len > cap THEN len - cap ELSE 0

\* cache.py 85-87: how many entries `while len(...) >= max_memory_items`
\* pops from the front
EvictedCount(len, cap) == IF len >= cap THEN len - cap + 1 ELSE 0

\* the keys popped by _add_to_memory
EvictedKeys(mem, cap) ==
    {mem[i].key : i \in 1..EvictedCount(Len(mem), cap)}

\* cache.py 90-92: memory_cache[key] = value keeps the place of a resident
\* key, move_to_end then puts it last
PutLast(mem, k, v) == Append(MemRemove(mem, k), [key |-> k, value |-> v])

\* SummaryCache._add_to_memory on memory_cache.  With max_memory_items <= 0
\* the loop empties the dict, popitem then raises KeyError and nothing is
\* added (cache.py 94-95)
AddToMemory(mem, cap, k, v) ==
    IF cap <= 0 THEN <<>>
    ELSE PutLast(SubSeq(mem, EvictedCount(Len(mem), cap) + 1, Len(mem)), k, v)

\* _add_to_memory keeping the timestamps of the entries it evicts
AddToTimestampsM(mem, stamps, cap, k) == stamps \cup {k}

\* SummaryCache._add_to_memory on memory_timestamps
AddToTimestamps(mem, stamps, cap, k) ==
    IF cap <= 0 THEN stamps \ MemKeys(mem)
    ELSE (stamps \ EvictedKeys(mem, cap)) \cup {k}

\* the memory tier's largest size while _add_to_memory runs
PeakSize(mem, cap, k) ==
    IF cap <= 0 THEN Len(mem)
    ELSE LET kept == SubSeq(mem, EvictedCount(Len(mem), cap) + 1, Len(mem))
         IN IF Len(mem) > Len(PutLast(kept, k, NoValue))
            THEN Len(mem) ELSE Len(PutLast(kept, k, NoValue))

\* get() served by the memory tier without the move_to_end of cache.py 31
MemoryHitM(mem, k) == mem

\* cache.py 30-32: a read hit marks the entry most recently used
MemoryHit(mem, k) == MoveToEnd(mem, k)

\* the last read hit or write of key k is now
Touch(rec, k) == Append(SelectSeq(rec, LAMBDA x : x # k), k)

\* the same after an _add_to_memory of k: the keys it popped are forgotten
TouchEvicting(rec, mem, cap, k) ==
    Touch(SelectSeq(rec, LAMBDA x : x \notin EvictedKeys(mem, cap)), k)

TaskIdle == [pc |-> "idle", key |-> 0, value |-> NoValue]

\* no call was made yet
NoCall == [op |-> "none", key |-> 0, ret |-> NoValue, from |-> "none",
           tier2 |-> FALSE]

CacheIdle ==
    /\ max_memory_items = 0
    /\ memory_cache = <<>>
    /\ memory_timestamps = {}
    /\ redis_up = FALSE
    /\ redis_store = <<>>
    /\ ctask = <<>>
    /\ recency = <<>>
    /\ evicted = {}
    /\ call = NoCall

(***************************************************************************)
(* RecursiveSummarizer._parse_time_range (chatbot)                         *)
(***************************************************************************)
Digits == {"0", "1", "2", "3", "4", "5", "6", "7", "8", "9"}

DigitValue(c) ==
    CASE c = "0" -> 0 [] c = "1" -> 1 [] c = "2" -> 2 [] c = "3" -> 3
      [] c = "4" -> 4 [] c = "5" -> 5 [] c = "6" -> 6 [] c = "7" -> 7
      [] c = "8" -> 8 [] c = "9" -> 9

RECURSIVE DecimalValue(_, _)
DecimalValue(s, acc) ==
    IF s = <<>> THEN acc
    ELSE DecimalValue(Tail(s), 10 * acc + DigitValue(Head(s)))

AllDigits(s) == s # <<>> /\ \A i \in 1..Len(s) : s[i] \in Digits

\* int(text) on text of digits and "-": a ValueError is [ok |-> FALSE]
ParseInt(s) ==
    IF AllDigits(s) THEN [ok |-> TRUE, val |-> DecimalValue(s, 0)]
    ELSE IF s # <<>> /\ Head(s) = "-" /\ AllDigits(Tail(s))
    THEN [ok |-> TRUE, val |-> 0 - DecimalValue(Tail(s), 0)]
    ELSE [ok |-> FALSE, val |-> 0]

\* str.lower() of one character
Lower(c) ==
    CASE c = "H" -> "h" [] c = "D" -> "d" [] c = "W" -> "w" [] c = "M" -> "m"
      [] OTHER -> c

HoursPerDay == 24

\* a timedelta, in hours; None is NoDuration
Duration(h) == [ok |-> TRUE, hours |-> h]
NoDuration == [ok |-> FALSE, hours |-> 0]

\* recursive_sum.py 273-284 with the caps left out
UnitBranchM(unit, value) ==
    IF unit = "d" THEN Duration(value * HoursPerDay)
    ELSE IF unit = "h" THEN Duration(value)
    ELSE IF unit = "m" \/ unit = "w" THEN Duration(HoursPerDay)
    ELSE Duration(1)

\* recursive_sum.py 273-284: the branch on the unit
UnitBranch(unit, value) ==
    IF unit = "d" THEN Duration((IF value > 1 THEN 1 ELSE value) * HoursPerDay)
    ELSE IF unit = "h" THEN Duration(IF value > 24 THEN 24 ELSE value)
    ELSE IF unit = "m" \/ unit = "w" THEN Duration(HoursPerDay)
    ELSE Duration(1)

\* RecursiveSummarizer._parse_time_range: IndexError on the empty string
\* and ValueError of int() give None
_parse_time_range(tr) ==
    IF tr = <<>> THEN NoDuration
    ELSE LET unit == Lower(tr[Len(tr)])
             value == ParseInt(SubSeq(tr, 1, Len(tr) - 1))
         IN IF ~value.ok THEN NoDuration ELSE UnitBranch(unit, value.val)

ParserIdle ==
    /\ expression = <<>>
    /\ parsed = NoDuration
    /\ ppc = "idle"

(***************************************************************************)
(* RecursiveSummarizer.summarize (chatbot): one request after another      *)
(* against one message store and one Redis-backed SummaryCache             *)
(***************************************************************************)
model_max_tokens == 4000

\* a stored message: `tokens` is calculate_tokens(str(msg)), `age` the hours
\* between its timestamp and the request
TokPool == {900, 1200}
AgePool == {0, 2, 30}

StoreMessages == [id : 1..MaxStoreMsgs, tokens : TokPool, age : AgePool]

\* MessageDB returns messages in ascending timestamp order
Stores ==
    {st \in UNION {[1..n -> StoreMessages] : n \in 0..MaxStoreMsgs} :
        /\ \A i \in 1..Len(st) : st[i].id = i
        /\ \A i \in 1..(Len(st) - 1) : st[i].age >= st[i + 1].age}

\* what summarize returns
NoMessages == "no_messages_in_range"            \* recursive_sum.py 54
CannotSummarize == "cannot_generate_summary"    \* recursive_sum.py 59
CannotMerge == "cannot_generate_final_summary"  \* recursive_sum.py 64
SummaryText == "summary_content"                \* recursive_sum.py 66
NoResult == "pending"

NoSummary == [content |-> "None", start |-> 0, end |-> 0, message_count |-> 0]

\* the time-range expressions of the requests
TimeRangePool ==
    { <<"1", "h">>, <<"2", "5", "h">>, <<"2", "d">>, <<"1", "w">>,
      <<"5", "x">>, <<"2", "4">>, <<"a", "b">>, <<>>, <<"0", "h">> }

\* recursive_sum.py 211-213: the parsed duration, capped at one day
WindowOf(tr) ==
    LET d == _parse_time_range(tr) IN
    IF d.ok /\ d.hours > HoursPerDay THEN Duration(HoursPerDay) ELSE d

\* `not duration`: None, and the zero timedelta, are falsy
DurationFalsy(d) == ~d.ok \/ d.hours = 0

\* MessageDB.query_messages with filter timestamp >= now - duration
query_messages(d) == SelectSeq(store, LAMBDA m : m.age <= d.hours)

\* recursive_sum.py 244-259: the greedy chunking of _get_messages_chunks
ChunkStep(st, msg) ==
    LET flush == st.current_tokens + msg.tokens > model_max_tokens \div 2
        closed == IF flush /\ st.current_chunk # <<>>
                  THEN Append(st.chunks, st.current_chunk) ELSE st.chunks
    IN [chunks |-> closed,
        current_chunk |-> Append(IF flush THEN <<>> ELSE st.current_chunk, msg),
        current_tokens |-> (IF flush THEN 0 ELSE st.current_tokens) + msg.tokens]

RECURSIVE ChunkLoop(_, _)
ChunkLoop(st, msgs) ==
    IF msgs = <<>> THEN st ELSE ChunkLoop(ChunkStep(st, Head(msgs)), Tail(msgs))

ChunkMessages(msgs) ==
    LET st == ChunkLoop([chunks |-> <<>>, current_chunk |-> <<>>,
                         current_tokens |-> 0], msgs)
    IN IF st.current_chunk # <<>> THEN Append(st.chunks, st.current_chunk)
       ELSE st.chunks

\* SummaryCache.get / set (chatbot/summarizer/cache.py)
CacheHas(cache, key) == \E e \in cache : e.key = key
CacheGet(cache, key) == (CHOOSE e \in cache : e.key = key).value
CacheSet(cache, key, value) ==
    {e \in cache : e.key # key} \cup {[key |-> key, value |-> value]}

L1Key(chunk) == <<"sum_l1", chunk>>
FinalKey(summaries) == <<"sum_final", summaries>>

\* recursive_sum.py 129-136
ChunkSummary(chunk) ==
    [content |-> "chunk_summary",
     start |-> chunk[1].age,
     end |-> chunk[Len(chunk)].age,
     message_count |-> Len(chunk)]

\* recursive_sum.py 188-195
MergedSummary(summaries) ==
    [content |-> SummaryText,
     start |-> summaries[1].start,
     end |-> summaries[Len(summaries)].end,
     message_count |-> SumSeq([k \in 1..Len(summaries) |->
                                  summaries[k].message_count])]

(***************************************************************************)
(* RecursiveSummarizer (src/src): the values of the three-layer pipeline   *)
(* that AIInterface.summarize_history runs.  A cache key hash(str(x)) is   *)
(* modelled by x itself: equal texts give equal keys, collisions are left  *)
(* out.  The SummaryCache is built with its default capacity, which the    *)
(* few keys of these requests never fill, so its memory tier alone serves  *)
(* every read.                                                             *)
(***************************************************************************)
DefaultCapacity == 1000

SummaryTokPool == {900, 1200}

\* the chunk of the i-th stretch of the history: two messages, at the times
\* 2i-1 and 2i
HistoryChunk(i) == [id |-> i, start |-> 2 * i - 1, end |-> 2 * i, count |-> 2]

\* the empty chunk of the [[]] that split_by_tokens returns when it raises
EmptyChunk == [id |-> 0, start |-> 0, end |-> 0, count |-> 0]

Ascending(S) ==
    CHOOSE q \in [1..Cardinality(S) -> S] :
        \A i, j \in 1..Cardinality(S) : i < j => q[i] < q[j]

\* what split_by_tokens may hand to a request: chunks in chronological
\* order, a history that repeats its first stretch message for message (two
\* chunks with the same str(chunk)), or the one empty chunk
ChunkLists ==
    {[k \in 1..Cardinality(S) |-> HistoryChunk(Ascending(S)[k])] :
        S \in (SUBSET (1..MaxChunks)) \ {{}}}
    \cup {<<HistoryChunk(1), HistoryChunk(1)>>}
    \cup {<<EmptyChunk>>}

\* a summary dict; `tokens` is calculate_tokens(str(summary)), which only
\* summarize_layer2 reads, and only of Layer-1 summaries
NoneSummary ==
    [kind |-> "None", start |-> 0, end |-> 0, message_count |-> 0,
     topic_count |-> 0, tokens |-> 1]

\* recursive_sum.py 133-140
BaseSummary(chunk, tok) ==
    [kind |-> "base", start |-> chunk.start, end |-> chunk.end,
     message_count |-> chunk.count, topic_count |-> 0, tokens |-> tok]

\* recursive_sum.py 170-177
TopicSummary(summaries) ==
    [kind |-> "topic",
     start |-> summaries[1].start,
     end |-> summaries[Len(summaries)].end,
     message_count |-> SumSeq([k \in 1..Len(summaries) |->
                                  summaries[k].message_count]),
     topic_count |-> 0, tokens |-> 0]

\* the final summary counting the messages of its last topic only
FinalSummaryLastCountM(topics) ==
    [kind |-> "final",
     start |-> topics[1].start,
     end |-> topics[Len(topics)].end,
     message_count |-> topics[Len(topics)].message_count,
     topic_count |-> Len(topics), tokens |-> 0]

\* recursive_sum.py 202-210
FinalSummary(topics) ==
    [kind |-> "final",
     start |-> topics[1].start,
     end |-> topics[Len(topics)].end,
     message_count |-> SumSeq([k \in 1..Len(topics) |->
                                  topics[k].message_count]),
     topic_count |-> Len(topics), tokens |-> 0]

Layer1Key(chunk) == <<"sum_l1", chunk>>
Layer2Key(summaries) == <<"sum_l2", summaries>>
Layer3Key(topics) == <<"sum_l3", topics>>

\* _merge_topic_summaries(topic) against the memory tier mem: the merged
\* summary, the tier afterwards and the summaries generated.  A None among
\* the summaries raises at s.get (162) and the method returns None (186).
MergeTopic(mem, topic) ==
    IF MemHas(mem, Layer2Key(topic))
    THEN [summary |-> MemValue(mem, Layer2Key(topic)),
          mem |-> MemoryHit(mem, Layer2Key(topic)), computed |-> 0]
    ELSE IF NoneSummary \in Range(topic)
    THEN [summary |-> NoneSummary, mem |-> mem, computed |-> 0]
    ELSE [summary |-> TopicSummary(topic),
          mem |-> AddToMemory(mem, DefaultCapacity, Layer2Key(topic),
                              TopicSummary(topic)),
          computed |-> 1]

\* `if merged: topic_summaries.append(merged)` (64-65, 75-76)
AppendMerged(topics, merged) ==
    IF merged = NoneSummary THEN topics ELSE Append(topics, merged)

\* the dicts summarize_history returns
Failure(message) ==
    [success |-> FALSE, summary |-> NoneSummary, message |-> message]
Success(final) == [success |-> TRUE, summary |-> final, message |-> "summary"]
NotReturned == Failure("pending")

\* str(e): the text of whatever exception summarize_history caught
\* (ai_interface.py 424-427)
ExceptionText == "str(e)"

NoRequest == [chunks |-> <<>>, result |-> NotReturned, failed |-> FALSE]

PipelineIdle ==
    /\ p_sumtok = <<>>
    /\ p_cache = <<>>
    /\ p_chunks = <<>>
    /\ p_pc = "idle"
    /\ p_idx = 0
    /\ p_summaries = <<>>
    /\ p_tasks = <<>>
    /\ p_topic = <<>>
    /\ p_tokens = 0
    /\ p_topics = <<>>
    /\ p_result = NotReturned
    /\ p_computed = 0
    /\ p_prev = NoRequest
    /\ p_runs = 0

(***************************************************************************)
(* WeiboMonitor (src/chatbot/weibo/monitor.py): monitor_old_messages and   *)
(* monitor_new_messages run as two asyncio tasks of one event loop and     *)
(* hand every message they receive to process_message.  A task keeps the   *)
(* loop from one suspension point to the next.                             *)
(***************************************************************************)
MsgIds == 1..NumMsgIds
MonitorTasks == {"old", "new"}

\* what the server may answer to one request: a list of messages (by id)
Batches == UNION {[1..n -> MsgIds] : n \in 0..MaxBatch}

\* an await at which every task gives up the event loop
SuspendsM(point) == TRUE

\* does the await at this point of the code give up the event loop?
\* asyncio.sleep (monitor.py 481, 485), the aiohttp request and its answer
\* (523-530) and the reply to a mention (373-376) do.  get_user_status and
\* the two add_message are coroutines whose bodies never await anything that
\* suspends (sqlite_db.py 78-91, 132-195, 279-289; message_db.py 44-116), and
\* requests.Session.get is a blocking call (448-454): awaiting them keeps
\* the loop.
Suspends(point) == point \in {"sleep", "request_new", "reply"}

TaskAt(pc, batch, msg) == [pc |-> pc, batch |-> batch, msg |-> msg]

MonitorIdle ==
    /\ m_running = FALSE
    /\ m_monitoring_old = FALSE
    /\ m_processed = {}
    /\ m_calls = <<>>
    /\ m_failed = <<>>
    /\ m_owner = "none"
    /\ m_task = <<>>
    /\ m_count = 0
    /\ m_polls = 0
    /\ m_stopped = FALSE

SummarizeIdle ==
    /\ store = <<>>
    /\ s_cache = {}
    /\ time_range = <<>>
    /\ spc = "idle"
    /\ s_chunks = <<>>
    /\ s_idx = 0
    /\ s_summaries = <<>>
    /\ s_final = NoSummary
    /\ s_result = NoResult
    /\ s_queries = 0
    /\ s_chunkings = 0
    /\ s_calls = 0
    /\ s_failed = {}

SummarizeInit ==
    /\ store \in Stores
    /\ s_cache = {}
    /\ time_range \in TimeRangePool
    /\ spc = "start"
    /\ s_chunks = <<>>
    /\ s_idx = 0
    /\ s_summaries = <<>>
    /\ s_final = NoSummary
    /\ s_result = NoResult
    /\ s_queries = 0
    /\ s_chunkings = 0
    /\ s_calls = 0
    /\ s_failed = {}
    /\ messages = <<>>
    /\ max_tokens = 1
    /\ chunks = <<>>
    /\ cpc = "idle"
    /\ ParserIdle
    /\ CacheIdle
    /\ PipelineIdle
    /\ MonitorIdle

Return(result) ==
    /\ s_result' = result
    /\ spc' = "returned"

\* summarize calls _get_messages_chunks; an invalid range returns [] before
\* any query, and summarize answers as for an empty window (211-216, 53-54)
S_Start ==
    /\ spc = "start"
    /\ IF DurationFalsy(WindowOf(time_range))
       THEN Return(NoMessages)
       ELSE spc' = "query" /\ UNCHANGED s_result
    /\ UNCHANGED <<store, s_cache, time_range, s_chunks, s_idx, s_summaries,
                   s_final, s_queries, s_chunkings, s_calls, s_failed>>
    /\ UNCHANGED <<chunkerVars, parserVars, cacheVars, pipelineVars, monitorVars>>

\* recursive_sum.py 53: `if not chunks`
NoChunksM(cs) == FALSE

NoChunks(cs) == cs = <<>>

\* recursive_sum.py 58-62 with the test of an empty Layer-1 result left out
AfterLayer1M(cs, summaries, idx) ==
    IF idx <= Len(cs) THEN spc' = "layer1" /\ UNCHANGED s_result
    ELSE spc' = "merge" /\ UNCHANGED s_result

\* summarize_layer1 goes to the next chunk; after the last one summarize
\* goes on: no summary at all is a failure (57-62)
AfterLayer1(cs, summaries, idx) ==
    IF idx <= Len(cs) THEN spc' = "layer1" /\ UNCHANGED s_result
    ELSE IF summaries = <<>> THEN Return(CannotSummarize)
    ELSE spc' = "merge" /\ UNCHANGED s_result

\* the store answers the query; no message: return [] (235-237); otherwise
\* the messages are chunked (239-261); summarize returns at once when it
\* got no chunk (53-54) and starts Layer 1 otherwise (57)
S_Query ==
    /\ spc = "query"
    /\ s_queries' = s_queries + 1
    /\ LET msgs == query_messages(WindowOf(time_range)) IN
       IF msgs = <<>>
       THEN UNCHANGED <<s_chunks, s_chunkings>>
       ELSE /\ s_chunks' = ChunkMessages(msgs)
            /\ s_chunkings' = s_chunkings + 1
    /\ s_idx' = 1
    /\ IF NoChunks(s_chunks') THEN Return(NoMessages)
       ELSE AfterLayer1(s_chunks', <<>>, 1)
    /\ UNCHANGED <<store, s_cache, time_range, s_summaries, s_final, s_calls,
                   s_failed>>
    /\ UNCHANGED <<chunkerVars, parserVars, cacheVars, pipelineVars, monitorVars>>

\* the query raises: _get_messages_chunks logs and returns [] (263-265)
S_QueryFails ==
    /\ spc = "query"
    /\ s_queries' = s_queries + 1
    /\ Return(NoMessages)
    /\ UNCHANGED <<store, s_cache, time_range, s_chunks, s_idx, s_summaries,
                   s_final, s_chunkings, s_calls, s_failed>>
    /\ UNCHANGED <<chunkerVars, parserVars, cacheVars, pipelineVars, monitorVars>>

\* summarize_layer1, one chunk: the cache holds its summary (77-82)
S_Layer1Hit ==
    /\ spc = "layer1"
    /\ CacheHas(s_cache, L1Key(s_chunks[s_idx]))
    /\ s_summaries' = Append(s_summaries, CacheGet(s_cache, L1Key(s_chunks[s_idx])))
    /\ s_idx' = s_idx + 1
    /\ AfterLayer1(s_chunks, s_summaries', s_idx')
    /\ UNCHANGED <<store, s_cache, time_range, s_chunks, s_final, s_queries,
                   s_chunkings, s_calls, s_failed>>
    /\ UNCHANGED <<chunkerVars, parserVars, cacheVars, pipelineVars, monitorVars>>

\* summarize_layer1, one chunk: a miss, the external call answers, the
\* summary is cached and appended (85-87, 95-141)
S_Layer1Call ==
    /\ spc = "layer1"
    /\ ~CacheHas(s_cache, L1Key(s_chunks[s_idx]))
    /\ s_calls' = s_calls + 1
    /\ s_cache' = CacheSet(s_cache, L1Key(s_chunks[s_idx]),
                           ChunkSummary(s_chunks[s_idx]))
    /\ s_summaries' = Append(s_summaries, ChunkSummary(s_chunks[s_idx]))
    /\ s_idx' = s_idx + 1
    /\ AfterLayer1(s_chunks, s_summaries', s_idx')
    /\ UNCHANGED <<store, time_range, s_chunks, s_final, s_queries,
                   s_chunkings, s_failed>>
    /\ UNCHANGED <<chunkerVars, parserVars, cacheVars, pipelineVars, monitorVars>>

\* summarize_layer1, one chunk: a miss and the external call raises;
\* _summarize_chunk returns None and the chunk is left out (86-87, 143-145)
S_Layer1CallFails ==
    /\ spc = "layer1"
    /\ ~CacheHas(s_cache, L1Key(s_chunks[s_idx]))
    /\ s_calls' = s_calls + 1
    /\ s_failed' = s_failed \cup {s_idx}
    /\ s_idx' = s_idx + 1
    /\ AfterLayer1(s_chunks, s_summaries, s_idx')
    /\ UNCHANGED <<store, s_cache, time_range, s_chunks, s_summaries, s_final,
                   s_queries, s_chunkings>>
    /\ UNCHANGED <<chunkerVars, parserVars, cacheVars, pipelineVars, monitorVars>>

\* _merge_summaries: the cache holds the merge of these summaries (150-154)
S_MergeHit ==
    /\ spc = "merge"
    /\ CacheHas(s_cache, FinalKey(s_summaries))
    /\ s_final' = CacheGet(s_cache, FinalKey(s_summaries))
    /\ Return(s_final'.content)
    /\ UNCHANGED <<store, s_cache, time_range, s_chunks, s_idx, s_summaries,
                   s_queries, s_chunkings, s_calls, s_failed>>
    /\ UNCHANGED <<chunkerVars, parserVars, cacheVars, pipelineVars, monitorVars>>

\* _merge_summaries: a miss, the external call answers (156-200, 66)
S_MergeCall ==
    /\ spc = "merge"
    /\ s_summaries # <<>>
    /\ ~CacheHas(s_cache, FinalKey(s_summaries))
    /\ s_calls' = s_calls + 1
    /\ s_final' = MergedSummary(s_summaries)
    /\ s_cache' = CacheSet(s_cache, FinalKey(s_summaries), s_final')
    /\ Return(s_final'.content)
    /\ UNCHANGED <<store, time_range, s_chunks, s_idx, s_summaries, s_queries,
                   s_chunkings, s_failed>>
    /\ UNCHANGED <<chunkerVars, parserVars, cacheVars, pipelineVars, monitorVars>>

\* _merge_summaries: a miss and the external call raises (202-204, 63-64)
S_MergeCallFails ==
    /\ spc = "merge"
    /\ ~CacheHas(s_cache, FinalKey(s_summaries))
    /\ s_calls' = s_calls + 1
    /\ Return(CannotMerge)
    /\ UNCHANGED <<store, s_cache, time_range, s_chunks, s_idx, s_summaries,
                   s_final, s_queries, s_chunkings, s_failed>>
    /\ UNCHANGED <<chunkerVars, parserVars, cacheVars, pipelineVars, monitorVars>>

\* the next summarize_chat tool call (chatbot/handlers/ai_interface.py 380-384)
S_NewRequest ==
    /\ spc = "returned"
    /\ time_range' \in TimeRangePool
    /\ spc' = "start"
    /\ s_chunks' = <<>>
    /\ s_idx' = 0
    /\ s_summaries' = <<>>
    /\ s_final' = NoSummary
    /\ s_result' = NoResult
    /\ s_queries' = 0
    /\ s_chunkings' = 0
    /\ s_calls' = 0
    /\ s_failed' = {}
    /\ UNCHANGED <<store, s_cache>>
    /\ UNCHANGED <<chunkerVars, parserVars, cacheVars, pipelineVars, monitorVars>>

SummarizeNext ==
    \/ S_Start \/ S_Query \/ S_QueryFails
    \/ S_Layer1Hit \/ S_Layer1Call \/ S_Layer1CallFails
    \/ S_MergeHit \/ S_MergeCall \/ S_MergeCallFails
    \/ S_NewRequest

SpecSummarize == SummarizeInit /\ [][SummarizeNext]_vars

(***************************************************************************)
(* Properties of RecursiveSummarizer.summarize (chatbot)                   *)
(***************************************************************************)
\* the outcome a returned text stands for
Outcome(result) ==
    CASE result = NoMessages -> "no_data"
      [] result \in {CannotSummarize, CannotMerge} -> "generation_failed"
      [] result = SummaryText -> "summary"
      [] OTHER -> "none"

\* C8 as stated: a request whose time-range expression is invalid makes no
\* message-store query, no chunking pass and no external call, and its
\* outcome is invalid_range, not the outcome of an empty window.
C8_InvalidRangeReported ==
    (spc = "returned" /\ ~_parse_time_range(time_range).ok) =>
        /\ s_queries = 0
        /\ s_chunkings = 0
        /\ s_calls = 0
        /\ Outcome(s_result) # "no_data"

\* C9: when the message store returns no message for the requested window
\* the request ends with the no_data outcome, having made no external
\* summarization call and started no reduction.
C9_EmptyWindowNoData ==
    (spc = "returned" /\ s_queries > 0
        /\ query_messages(WindowOf(time_range)) = <<>>) =>
        /\ Outcome(s_result) = "no_data"
        /\ s_calls = 0
        /\ s_chunkings = 0
        /\ s_summaries = <<>>
        /\ s_final = NoSummary

\* C9 witness: the store holds messages, none of them inside the window
C9_Witness ==
    /\ spc = "returned"
    /\ store # <<>>
    /\ s_queries = 1
    /\ time_range = <<"2", "5", "h">>
    /\ query_messages(WindowOf(time_range)) = <<>>
    /\ s_result = NoMessages

\* the external call raised for every chunk of the request
AllLayer1Failed == s_chunks # <<>> /\ s_failed = 1..Len(s_chunks)

\* C10: when the external call fails for every chunk at Layer 1 the request
\* ends with the generation_failed outcome: no final Summary is returned
\* and no merge is made.
C10_AllFailedIsFailure ==
    AllLayer1Failed =>
        /\ spc = "returned"
        /\ Outcome(s_result) = "generation_failed"
        /\ s_final = NoSummary
        /\ s_calls = Len(s_chunks)

\* C10 witness: a request of two chunks, both calls raised
C10_Witness ==
    /\ spc = "returned"
    /\ Len(s_chunks) = 2
    /\ s_failed = {1, 2}
    /\ s_result = CannotSummarize

(***************************************************************************)
(* The cache and the tasks using it                                        *)
(***************************************************************************)
\* SummaryCache.__init__ over a RedisClient whose connection was made or not
CacheInit ==
    /\ max_memory_items \in 1..MaxCapacity
    /\ memory_cache = <<>>
    /\ memory_timestamps = {}
    /\ redis_up \in BOOLEAN
    /\ redis_store = [k \in CacheKeys |-> NoValue]
    /\ ctask = [t \in Tasks |-> TaskIdle]
    /\ recency = <<>>
    /\ evicted = {}
    /\ call = NoCall
    /\ messages = <<>>
    /\ max_tokens = 1
    /\ chunks = <<>>
    /\ cpc = "idle"
    /\ ParserIdle
    /\ SummarizeIdle
    /\ PipelineIdle
    /\ MonitorIdle

OthersUnchanged ==
    UNCHANGED <<chunkerVars, parserVars, summarizeVars, pipelineVars, monitorVars, call>>

\* get(key): a memory hit returns at once (cache.py 30-32)
C_GetHit(t, k) ==
    /\ ctask[t].pc = "idle"
    /\ MemHas(memory_cache, k)
    /\ memory_cache' = MemoryHit(memory_cache, k)
    /\ recency' = Touch(recency, k)
    /\ UNCHANGED <<max_memory_items, memory_timestamps, redis_up, redis_store,
                   ctask, evicted>>
    /\ OthersUnchanged

\* get(key): a memory miss; without a connection RedisClient.get returns
\* None at once (redis_client.py 31-32), with one it awaits the Redis
\* thread (cache.py 35-36, redis_client.py 34)
C_GetMiss(t, k) ==
    /\ ctask[t].pc = "idle"
    /\ ~MemHas(memory_cache, k)
    /\ ctask' = IF redis_up
                THEN [ctask EXCEPT ![t] = [pc |-> "get_redis", key |-> k,
                                           value |-> NoValue]]
                ELSE ctask
    /\ UNCHANGED <<max_memory_items, memory_cache, memory_timestamps, redis_up,
                   redis_store, recency, evicted>>
    /\ OthersUnchanged

\* get(key): Redis answers; a stored value is promoted into the memory tier
\* before get returns it (cache.py 37-42)
C_GetRedisReturns(t) ==
    /\ ctask[t].pc = "get_redis"
    /\ LET k == ctask[t].key
           v == redis_store[k]
       IN IF v # NoValue
          THEN /\ memory_cache' = AddToMemory(memory_cache, max_memory_items, k, v)
               /\ memory_timestamps' =
                     AddToTimestamps(memory_cache, memory_timestamps,
                                     max_memory_items, k)
               /\ recency' = TouchEvicting(recency, memory_cache, max_memory_items, k)
               /\ evicted' = EvictedKeys(memory_cache, max_memory_items)
          ELSE UNCHANGED <<memory_cache, memory_timestamps, recency, evicted>>
    /\ ctask' = [ctask EXCEPT ![t] = TaskIdle]
    /\ UNCHANGED <<max_memory_items, redis_up, redis_store>>
    /\ OthersUnchanged

\* get(key): the Redis read raises; RedisClient.get returns None
\* (redis_client.py 37-39)
C_GetRedisFails(t) ==
    /\ ctask[t].pc = "get_redis"
    /\ ctask' = [ctask EXCEPT ![t] = TaskIdle]
    /\ UNCHANGED <<max_memory_items, memory_cache, memory_timestamps, redis_up,
                   redis_store, recency, evicted>>
    /\ OthersUnchanged

\* set(key, value): the memory tier is written first (cache.py 52); without
\* a connection RedisClient.set returns False at once, with one it awaits
\* the Redis thread (cache.py 55-56, redis_client.py 44-50)
C_Set(t, k, v) ==
    /\ ctask[t].pc = "idle"
    /\ memory_cache' = AddToMemory(memory_cache, max_memory_items, k, v)
    /\ memory_timestamps' =
          AddToTimestamps(memory_cache, memory_timestamps, max_memory_items, k)
    /\ recency' = TouchEvicting(recency, memory_cache, max_memory_items, k)
    /\ evicted' = EvictedKeys(memory_cache, max_memory_items)
    /\ ctask' = IF redis_up
                THEN [ctask EXCEPT ![t] = [pc |-> "set_redis", key |-> k,
                                           value |-> v]]
                ELSE ctask
    /\ UNCHANGED <<max_memory_items, redis_up, redis_store>>
    /\ OthersUnchanged

\* set(key, value): Redis stores the value
C_SetRedisReturns(t) ==
    /\ ctask[t].pc = "set_redis"
    /\ redis_store' = [redis_store EXCEPT ![ctask[t].key] = ctask[t].value]
    /\ ctask' = [ctask EXCEPT ![t] = TaskIdle]
    /\ UNCHANGED <<max_memory_items, memory_cache, memory_timestamps, redis_up,
                   recency, evicted>>
    /\ OthersUnchanged

\* set(key, value): the Redis write raises (redis_client.py 52-54)
C_SetRedisFails(t) ==
    /\ ctask[t].pc = "set_redis"
    /\ ctask' = [ctask EXCEPT ![t] = TaskIdle]
    /\ UNCHANGED <<max_memory_items, memory_cache, memory_timestamps, redis_up,
                   redis_store, recency, evicted>>
    /\ OthersUnchanged

\* delete(key): the memory tier first (cache.py 68-69), then Redis (72-73)
C_Delete(t, k) ==
    /\ ctask[t].pc = "idle"
    /\ memory_cache' = MemRemove(memory_cache, k)
    /\ memory_timestamps' = memory_timestamps \ {k}
    /\ recency' = SelectSeq(recency, LAMBDA x : x # k)
    /\ ctask' = IF redis_up
                THEN [ctask EXCEPT ![t] = [pc |-> "delete_redis", key |-> k,
                                           value |-> NoValue]]
                ELSE ctask
    /\ UNCHANGED <<max_memory_items, redis_up, redis_store, evicted>>
    /\ OthersUnchanged

\* delete(key): Redis deletes the key
C_DeleteRedisReturns(t) ==
    /\ ctask[t].pc = "delete_redis"
    /\ redis_store' = [redis_store EXCEPT ![ctask[t].key] = NoValue]
    /\ ctask' = [ctask EXCEPT ![t] = TaskIdle]
    /\ UNCHANGED <<max_memory_items, memory_cache, memory_timestamps, redis_up,
                   recency, evicted>>
    /\ OthersUnchanged

\* delete(key): the Redis delete raises (redis_client.py 64-66)
C_DeleteRedisFails(t) ==
    /\ ctask[t].pc = "delete_redis"
    /\ ctask' = [ctask EXCEPT ![t] = TaskIdle]
    /\ UNCHANGED <<max_memory_items, memory_cache, memory_timestamps, redis_up,
                   redis_store, recency, evicted>>
    /\ OthersUnchanged

\* clear_memory_cache() (cache.py 97-100)
C_Clear ==
    /\ memory_cache # <<>>
    /\ memory_cache' = <<>>
    /\ memory_timestamps' = {}
    /\ recency' = <<>>
    /\ UNCHANGED <<max_memory_items, redis_up, redis_store, ctask, evicted>>
    /\ OthersUnchanged

CacheNext ==
    \/ \E t \in Tasks, k \in CacheKeys : C_GetHit(t, k)
    \/ \E t \in Tasks, k \in CacheKeys : C_GetMiss(t, k)
    \/ \E t \in Tasks : C_GetRedisReturns(t)
    \/ \E t \in Tasks : C_GetRedisFails(t)
    \/ \E t \in Tasks, k \in CacheKeys, v \in CacheValues : C_Set(t, k, v)
    \/ \E t \in Tasks : C_SetRedisReturns(t)
    \/ \E t \in Tasks : C_SetRedisFails(t)
    \/ \E t \in Tasks, k \in CacheKeys : C_Delete(t, k)
    \/ \E t \in Tasks : C_DeleteRedisReturns(t)
    \/ \E t \in Tasks : C_DeleteRedisFails(t)
    \/ C_Clear

SpecCache == CacheInit /\ [][CacheNext]_vars

(***************************************************************************)
(* Properties of SummaryCache                                              *)
(***************************************************************************)
\* the resident key whose last read hit or write is the oldest
LeastRecentlyUsed ==
    Head(SelectSeq(recency, LAMBDA k : MemHas(memory_cache, k)))

\* C4: the memory tier is a true LRU: a step that inserts a new key into a
\* full memory tier removes exactly one entry, the key whose last read hit
\* or write is the oldest, and leaves the tier full (so N+1 distinct keys
\* inserted leave N entries, the least recently used one gone).
C4_EvictsLeastRecentlyUsed ==
    [][\A k \in CacheKeys :
          (/\ ~MemHas(memory_cache, k)
           /\ MemHas(memory_cache', k)
           /\ Len(memory_cache) = max_memory_items)
          => /\ MemKeys(memory_cache) \ MemKeys(memory_cache') = {LeastRecentlyUsed}
             /\ MemKeys(memory_cache') \ MemKeys(memory_cache) = {k}
             /\ Len(memory_cache') = max_memory_items]_vars

\* C4 witness: a tier of capacity 2 is full after an insertion that evicted
\* the first key while keys 2 and 3 are resident
C4_Witness ==
    /\ max_memory_items = 2
    /\ evicted = {1}
    /\ MemKeys(memory_cache) = {2, 3}

\* C5: in every reachable state of every interleaving of the tasks the
\* memory tier holds at most max_memory_items entries, and it would not
\* exceed the capacity inside the next _add_to_memory either, whatever the
\* key (the eviction comes before the insertion, in one step).
C5_CapacityNeverExceeded ==
    /\ Len(memory_cache) <= max_memory_items
    /\ \A k \in CacheKeys :
          PeakSize(memory_cache, max_memory_items, k) <= max_memory_items

\* C5 witness: the tier is full while one task awaits its Redis write and
\* the other a Redis read whose value is to be promoted into the tier
C5_Witness ==
    /\ Len(memory_cache) = max_memory_items
    /\ ctask["t1"].pc = "set_redis"
    /\ ctask["t2"].pc = "get_redis"
    /\ redis_store[ctask["t2"].key] # NoValue
    /\ ~MemHas(memory_cache, ctask["t2"].key)

(***************************************************************************)
(* SummaryCache used by one caller: every call runs to its return, and     *)
(* what it returned is kept in `call`                                      *)
(***************************************************************************)
\* what a call did: `ret` is the value get returned (NoValue for None) or
\* the bool set / delete returned, `from` the tier that served a get,
\* `tier2` whether the Redis server was asked
Called(op, k, ret, from, tier2) ==
    [op |-> op, key |-> k, ret |-> ret, from |-> from, tier2 |-> tier2]

\* a call of _add_to_memory(k, v) that is left out
MemoryAddM(k, v) ==
    UNCHANGED <<memory_cache, memory_timestamps, recency, evicted>>

\* _add_to_memory(k, v) (cache.py 81-95)
MemoryAdd(k, v) ==
    /\ memory_cache' = AddToMemory(memory_cache, max_memory_items, k, v)
    /\ memory_timestamps' =
          AddToTimestamps(memory_cache, memory_timestamps, max_memory_items, k)
    /\ recency' = TouchEvicting(recency, memory_cache, max_memory_items, k)
    /\ evicted' = EvictedKeys(memory_cache, max_memory_items)

\* delete's memory_cache.pop / memory_timestamps.pop (cache.py 68-69)
MemoryPop(k) ==
    /\ memory_cache' = MemRemove(memory_cache, k)
    /\ memory_timestamps' = memory_timestamps \ {k}
    /\ recency' = SelectSeq(recency, LAMBDA x : x # k)
    /\ UNCHANGED evicted

CallOthers ==
    UNCHANGED <<chunkerVars, parserVars, summarizeVars, pipelineVars, monitorVars,
                max_memory_items, redis_up, ctask>>

\* get(k) served by the memory tier (cache.py 30-32)
K_GetMemory(k) ==
    /\ MemHas(memory_cache, k)
    /\ call' = Called("get", k, MemValue(memory_cache, k), "memory", FALSE)
    /\ memory_cache' = MemoryHit(memory_cache, k)
    /\ recency' = Touch(recency, k)
    /\ UNCHANGED <<memory_timestamps, evicted, redis_store>>
    /\ CallOthers

\* get(k), a memory miss without a Redis connection: RedisClient.get
\* returns None (cache.py 35-42, redis_client.py 31-32)
K_GetNoRedis(k) ==
    /\ ~MemHas(memory_cache, k)
    /\ ~redis_up
    /\ call' = Called("get", k, NoValue, "none", FALSE)
    /\ UNCHANGED <<memory_cache, memory_timestamps, recency, evicted,
                   redis_store>>
    /\ CallOthers

\* get(k), a memory miss answered by Redis: a stored value is promoted into
\* the memory tier and returned (cache.py 35-42, redis_client.py 34-35)
K_GetRedis(k) ==
    /\ ~MemHas(memory_cache, k)
    /\ redis_up
    /\ IF redis_store[k] # NoValue
       THEN /\ MemoryAdd(k, redis_store[k])
            /\ call' = Called("get", k, redis_store[k], "redis", TRUE)
       ELSE /\ UNCHANGED <<memory_cache, memory_timestamps, recency, evicted>>
            /\ call' = Called("get", k, NoValue, "none", TRUE)
    /\ UNCHANGED redis_store
    /\ CallOthers

\* get(k), a memory miss and the Redis read raises (redis_client.py 37-39)
K_GetRedisFails(k) ==
    /\ ~MemHas(memory_cache, k)
    /\ redis_up
    /\ call' = Called("get", k, NoValue, "none", TRUE)
    /\ UNCHANGED <<memory_cache, memory_timestamps, recency, evicted,
                   redis_store>>
    /\ CallOthers

\* what set returns: Redis answered the write or not
SetResult(stored) == IF stored THEN "True" ELSE "False"

\* set(k, v) without a Redis connection: the memory tier is written and
\* RedisClient.set's False is returned (cache.py 52-56, redis_client.py 44-45)
K_SetNoRedis(k, v) ==
    /\ ~redis_up
    /\ MemoryAdd(k, v)
    /\ call' = Called("set", k, SetResult(FALSE), "none", FALSE)
    /\ UNCHANGED redis_store
    /\ CallOthers

\* set(k, v), both tiers written (cache.py 52-56, redis_client.py 47-50)
K_SetStored(k, v) ==
    /\ redis_up
    /\ MemoryAdd(k, v)
    /\ redis_store' = [redis_store EXCEPT ![k] = v]
    /\ call' = Called("set", k, SetResult(TRUE), "none", TRUE)
    /\ CallOthers

\* set(k, v), the memory tier written and the Redis write raises:
\* RedisClient.set returns False (cache.py 52-56, redis_client.py 52-54)
K_SetRedisFails(k, v) ==
    /\ redis_up
    /\ MemoryAdd(k, v)
    /\ call' = Called("set", k, SetResult(FALSE), "none", TRUE)
    /\ UNCHANGED redis_store
    /\ CallOthers

\* delete(k) without a Redis connection: RedisClient.delete's False is
\* returned (cache.py 68-73, redis_client.py 59-60)
K_DeleteNoRedis(k) ==
    /\ ~redis_up
    /\ MemoryPop(k)
    /\ call' = Called("delete", k, "False", "none", FALSE)
    /\ UNCHANGED redis_store
    /\ CallOthers

\* delete(k) answered by Redis: bool(number of keys removed)
\* (cache.py 68-73, redis_client.py 62)
K_DeleteRedis(k) ==
    /\ redis_up
    /\ MemoryPop(k)
    /\ redis_store' = [redis_store EXCEPT ![k] = NoValue]
    /\ call' = Called("delete", k,
                      IF redis_store[k] # NoValue THEN "True" ELSE "False",
                      "none", TRUE)
    /\ CallOthers

\* delete(k) and the Redis delete raises (cache.py 68-73,
\* redis_client.py 64-66)
K_DeleteRedisFails(k) ==
    /\ redis_up
    /\ MemoryPop(k)
    /\ call' = Called("delete", k, "False", "none", TRUE)
    /\ UNCHANGED redis_store
    /\ CallOthers

\* clear_memory_cache() (cache.py 97-100)
K_Clear ==
    /\ memory_cache' = <<>>
    /\ memory_timestamps' = {}
    /\ recency' = <<>>
    /\ call' = Called("clear", 0, NoValue, "none", FALSE)
    /\ UNCHANGED <<evicted, redis_store>>
    /\ CallOthers

CallsNext ==
    \/ \E k \in CacheKeys : K_GetMemory(k)
    \/ \E k \in CacheKeys : K_GetNoRedis(k)
    \/ \E k \in CacheKeys : K_GetRedis(k)
    \/ \E k \in CacheKeys : K_GetRedisFails(k)
    \/ \E k \in CacheKeys, v \in CacheValues : K_SetNoRedis(k, v)
    \/ \E k \in CacheKeys, v \in CacheValues : K_SetStored(k, v)
    \/ \E k \in CacheKeys, v \in CacheValues : K_SetRedisFails(k, v)
    \/ \E k \in CacheKeys : K_DeleteNoRedis(k)
    \/ \E k \in CacheKeys : K_DeleteRedis(k)
    \/ \E k \in CacheKeys : K_DeleteRedisFails(k)
    \/ K_Clear

SpecCacheCalls == CacheInit /\ [][CallsNext]_vars

(***************************************************************************)
(* Properties of the calls of SummaryCache                                 *)
(***************************************************************************)
\* C12 as stated: set reports success whenever the memory tier was written,
\* also when the Redis write fails or there is no Redis; the key is then
\* resident with that value, so that get returns it from the memory tier.
C12_SetSucceedsOnTier1 ==
    call.op = "set" =>
        /\ call.ret = "True"
        /\ MemHas(memory_cache, call.key)

\* C13 as stated: a delete(key) leaves the entry in neither tier, so that
\* a following get(key) returns absent, and it reports success when the key
\* was stored in a tier.
C13_DeleteRemovesAndReports ==
    [][call'.op = "delete" =>
          /\ ~MemHas(memory_cache', call'.key)
          /\ redis_store'[call'.key] = NoValue
          /\ (MemHas(memory_cache, call'.key)
                 \/ redis_store[call'.key] # NoValue) => call'.ret = "True"]_vars

\* C27 as stated: a set(key, value) of a key resident in the memory tier
\* replaces its value and makes it the most recently used entry; the keys
\* resident in the tier stay the same, also when the tier is full.
C27_SetOfResidentKeepsKeys ==
    [][(call'.op = "set" /\ MemHas(memory_cache, call'.key)) =>
          /\ MemKeys(memory_cache') = MemKeys(memory_cache)
          /\ memory_cache'[Len(memory_cache')].key = call'.key]_vars

\* C30: after any sequence of get, set, delete and clear_memory_cache the
\* keys of memory_timestamps are the keys of memory_cache.
C30_TimestampsMatchEntries ==
    memory_timestamps = MemKeys(memory_cache)

\* C30 witness: an insertion into the full tier evicted an entry, a delete
\* followed, and an entry is still resident
C30_Witness ==
    /\ evicted # {}
    /\ call.op = "delete"
    /\ memory_cache # <<>>
    /\ ~MemHas(memory_cache, call.key)

PipelineInit ==
    /\ p_sumtok \in [1..MaxChunks -> SummaryTokPool]
    /\ p_cache = <<>>
    /\ p_chunks = <<>>
    /\ p_pc = "idle"
    /\ p_idx = 0
    /\ p_summaries = <<>>
    /\ p_tasks = <<>>
    /\ p_topic = <<>>
    /\ p_tokens = 0
    /\ p_topics = <<>>
    /\ p_result = NotReturned
    /\ p_computed = 0
    /\ p_prev = NoRequest
    /\ p_runs = 0
    /\ messages = <<>>
    /\ max_tokens = 1
    /\ chunks = <<>>
    /\ cpc = "idle"
    /\ ParserIdle
    /\ SummarizeIdle
    /\ CacheIdle
    /\ MonitorIdle

PipelineOthers ==
    UNCHANGED <<chunkerVars, parserVars, summarizeVars, cacheVars, monitorVars>>

\* the Layer-1 units of the request whose task returned None
FailedUnits ==
    {i \in 1..Len(p_tasks) : p_tasks[i].done /\ p_tasks[i].result = NoneSummary}

\* a gather that does not wait for its tasks
AllTasksDoneM(tasks) == TRUE

\* `await asyncio.gather(*tasks)` resumes when every task has returned
\* (recursive_sum.py 40-41)
AllTasksDone(tasks) == \A i \in 1..Len(tasks) : tasks[i].done

\* summarize_history returns
P_Return(result) ==
    /\ p_result' = result
    /\ p_pc' = "done"

\* a request begins: the message store answered the awaited query with
\* messages (a store whose query_messages is a coroutine, as
\* chatbot/db/message_db.py 118) and split_by_tokens returned the chunk
\* list cs (ai_interface.py 361-378)
P_Start(cs) ==
    /\ p_pc \in {"idle", "done"}
    /\ p_runs < MaxRuns
    /\ p_runs' = p_runs + 1
    /\ p_prev' = [chunks |-> p_chunks, result |-> p_result,
                  failed |-> FailedUnits # {}]
    /\ p_chunks' = cs
    /\ p_pc' = "layer1"
    /\ p_idx' = 1
    /\ p_summaries' = <<>>
    /\ p_tasks' = <<>>
    /\ p_topic' = <<>>
    /\ p_tokens' = 0
    /\ p_topics' = <<>>
    /\ p_result' = NotReturned
    /\ p_computed' = 0
    /\ UNCHANGED <<p_sumtok, p_cache>>
    /\ PipelineOthers

\* a request whose query finds no message (ai_interface.py 365-369)
P_NoMessages ==
    /\ p_pc \in {"idle", "done"}
    /\ p_runs < MaxRuns
    /\ p_runs' = p_runs + 1
    /\ p_prev' = [chunks |-> p_chunks, result |-> p_result,
                  failed |-> FailedUnits # {}]
    /\ p_chunks' = <<>>
    /\ p_idx' = 0
    /\ p_summaries' = <<>>
    /\ p_tasks' = <<>>
    /\ p_topic' = <<>>
    /\ p_tokens' = 0
    /\ p_topics' = <<>>
    /\ p_computed' = 0
    /\ P_Return(Failure("no_messages"))
    /\ UNCHANGED <<p_sumtok, p_cache>>
    /\ PipelineOthers

\* a request whose query raises inside summarize_history: with the
\* MessageDB of src/src, query_messages is a plain function
\* (db/message_db.py 87) and `await` of the dict it returns raises
\* TypeError; the handler returns the text of the exception as message
\* (ai_interface.py 361-363, 422-427)
P_QueryRaises ==
    /\ p_pc \in {"idle", "done"}
    /\ p_runs < MaxRuns
    /\ p_runs' = p_runs + 1
    /\ p_prev' = [chunks |-> p_chunks, result |-> p_result,
                  failed |-> FailedUnits # {}]
    /\ p_chunks' = <<>>
    /\ p_idx' = 0
    /\ p_summaries' = <<>>
    /\ p_tasks' = <<>>
    /\ p_topic' = <<>>
    /\ p_tokens' = 0
    /\ p_topics' = <<>>
    /\ p_computed' = 0
    /\ P_Return(Failure(ExceptionText))
    /\ UNCHANGED <<p_sumtok, p_cache>>
    /\ PipelineOthers

\* summarize_layer1, a chunk found in the cache: its summary is appended to
\* summaries at once (recursive_sum.py 24-29)
P_Layer1Hit ==
    /\ p_pc = "layer1"
    /\ p_idx <= Len(p_chunks)
    /\ MemHas(p_cache, Layer1Key(p_chunks[p_idx]))
    /\ p_summaries' =
          Append(p_summaries, MemValue(p_cache, Layer1Key(p_chunks[p_idx])))
    /\ p_cache' = MemoryHit(p_cache, Layer1Key(p_chunks[p_idx]))
    /\ p_idx' = p_idx + 1
    /\ UNCHANGED <<p_sumtok, p_chunks, p_pc, p_tasks, p_topic, p_tokens,
                   p_topics, p_result, p_computed, p_prev, p_runs>>
    /\ PipelineOthers

\* a lookup that, on a miss, waits for the task already created for the
\* same chunk instead of creating one of its own
P_Layer1TaskSingleFlightM ==
    /\ p_pc = "layer1"
    /\ p_idx <= Len(p_chunks)
    /\ ~MemHas(p_cache, Layer1Key(p_chunks[p_idx]))
    /\ p_tasks' =
          IF \E i \in 1..Len(p_tasks) : p_tasks[i].chunk = p_chunks[p_idx]
          THEN p_tasks
          ELSE Append(p_tasks, [chunk |-> p_chunks[p_idx], done |-> FALSE,
                                result |-> NoneSummary])
    /\ p_idx' = p_idx + 1
    /\ UNCHANGED <<p_sumtok, p_cache, p_chunks, p_pc, p_summaries, p_topic,
                   p_tokens, p_topics, p_result, p_computed, p_prev, p_runs>>
    /\ PipelineOthers

\* summarize_layer1, a chunk not in the cache: a task is created for it
\* (recursive_sum.py 32-37)
P_Layer1Task ==
    /\ p_pc = "layer1"
    /\ p_idx <= Len(p_chunks)
    /\ ~MemHas(p_cache, Layer1Key(p_chunks[p_idx]))
    /\ p_tasks' = Append(p_tasks, [chunk |-> p_chunks[p_idx], done |-> FALSE,
                                   result |-> NoneSummary])
    /\ p_idx' = p_idx + 1
    /\ UNCHANGED <<p_sumtok, p_cache, p_chunks, p_pc, p_summaries, p_topic,
                   p_tokens, p_topics, p_result, p_computed, p_prev, p_runs>>
    /\ PipelineOthers

\* a task runs _summarize_chunk while summarize_layer1 is suspended: the
\* summary is generated and cached (recursive_sum.py 116-145); an empty
\* chunk raises at messages[0] and the task returns None (147-149)
P_SummarizeChunk(i) ==
    /\ p_pc = "layer1"
    /\ i \in 1..Len(p_tasks)
    /\ ~p_tasks[i].done
    /\ LET chunk == p_tasks[i].chunk
           summary == BaseSummary(chunk, p_sumtok[chunk.id])
       IN IF chunk.count = 0
          THEN /\ p_tasks' = [p_tasks EXCEPT ![i].done = TRUE]
               /\ UNCHANGED <<p_cache, p_computed>>
          ELSE /\ p_tasks' = [p_tasks EXCEPT ![i].done = TRUE,
                                             ![i].result = summary]
               /\ p_cache' = AddToMemory(p_cache, DefaultCapacity,
                                         Layer1Key(chunk), summary)
               /\ p_computed' = p_computed + 1
    /\ UNCHANGED <<p_sumtok, p_chunks, p_pc, p_idx, p_summaries, p_topic,
                   p_tokens, p_topics, p_result, p_prev, p_runs>>
    /\ PipelineOthers

\* a task runs _summarize_chunk and the body of its try block raises, as
\* the summarization call would on failure: the task returns None and
\* nothing is cached (recursive_sum.py 116-132, 147-149)
P_SummarizeChunkFails(i) ==
    /\ p_pc = "layer1"
    /\ i \in 1..Len(p_tasks)
    /\ ~p_tasks[i].done
    /\ p_tasks' = [p_tasks EXCEPT ![i].done = TRUE]
    /\ UNCHANGED <<p_sumtok, p_cache, p_chunks, p_pc, p_idx, p_summaries,
                   p_topic, p_tokens, p_topics, p_result, p_computed, p_prev,
                   p_runs>>
    /\ PipelineOthers

\* summarize_layer1 ends: the results of the tasks are appended, in the
\* order of the tasks, after the summaries read from the cache
\* (recursive_sum.py 40-44); summarize_history goes on to Layer 2 unless
\* the list is empty (ai_interface.py 378-383)
P_Gather ==
    /\ p_pc = "layer1"
    /\ p_idx > Len(p_chunks)
    /\ AllTasksDone(p_tasks)
    /\ LET base == p_summaries \o [i \in 1..Len(p_tasks) |-> p_tasks[i].result]
       IN /\ p_summaries' = base
          /\ IF base = <<>>
             THEN /\ P_Return(Failure("base_failed"))
                  /\ UNCHANGED p_idx
             ELSE /\ p_pc' = "layer2"
                  /\ p_idx' = 1
                  /\ UNCHANGED p_result
    /\ UNCHANGED <<p_sumtok, p_cache, p_chunks, p_tasks, p_topic, p_tokens,
                   p_topics, p_computed, p_prev, p_runs>>
    /\ PipelineOthers

\* summarize_layer2, a summary that joins the current topic group
\* (recursive_sum.py 57-61, 69-70)
P_Layer2Join ==
    /\ p_pc = "layer2"
    /\ p_idx <= Len(p_summaries)
    /\ p_tokens + p_summaries[p_idx].tokens <= model_max_tokens \div 2
    /\ p_topic' = Append(p_topic, p_summaries[p_idx])
    /\ p_tokens' = p_tokens + p_summaries[p_idx].tokens
    /\ p_idx' = p_idx + 1
    /\ UNCHANGED <<p_sumtok, p_cache, p_chunks, p_pc, p_summaries, p_tasks,
                   p_topics, p_result, p_computed, p_prev, p_runs>>
    /\ PipelineOthers

\* summarize_layer2, a summary that does not fit: the current group, if
\* any, is merged and the summary starts the next one
\* (recursive_sum.py 61-70)
P_Layer2NewTopic ==
    /\ p_pc = "layer2"
    /\ p_idx <= Len(p_summaries)
    /\ p_tokens + p_summaries[p_idx].tokens > model_max_tokens \div 2
    /\ IF p_topic # <<>>
       THEN LET m == MergeTopic(p_cache, p_topic)
            IN /\ p_topics' = AppendMerged(p_topics, m.summary)
               /\ p_cache' = m.mem
               /\ p_computed' = p_computed + m.computed
       ELSE UNCHANGED <<p_topics, p_cache, p_computed>>
    /\ p_topic' = <<p_summaries[p_idx]>>
    /\ p_tokens' = p_summaries[p_idx].tokens
    /\ p_idx' = p_idx + 1
    /\ UNCHANGED <<p_sumtok, p_chunks, p_pc, p_summaries, p_tasks, p_result,
                   p_prev, p_runs>>
    /\ PipelineOthers

\* summarize_layer2 ends: the remaining group is merged
\* (recursive_sum.py 73-78); summarize_history goes on to Layer 3 unless
\* no topic summary was made (ai_interface.py 386-391)
P_Layer2Last ==
    /\ p_pc = "layer2"
    /\ p_idx > Len(p_summaries)
    /\ LET m == IF p_topic # <<>>
                THEN MergeTopic(p_cache, p_topic)
                ELSE [summary |-> NoneSummary, mem |-> p_cache, computed |-> 0]
           topics == AppendMerged(p_topics, m.summary)
       IN /\ p_topics' = topics
          /\ p_cache' = m.mem
          /\ p_computed' = p_computed + m.computed
          /\ IF topics = <<>>
             THEN P_Return(Failure("topic_failed"))
             ELSE /\ p_pc' = "layer3"
                  /\ UNCHANGED p_result
    /\ UNCHANGED <<p_sumtok, p_chunks, p_idx, p_summaries, p_tasks, p_topic,
                   p_tokens, p_prev, p_runs>>
    /\ PipelineOthers

\* summarize_layer3, the final summary found in the cache
\* (recursive_sum.py 90-94); summarize_history returns it
\* (ai_interface.py 394-420)
P_Layer3Hit ==
    /\ p_pc = "layer3"
    /\ MemHas(p_cache, Layer3Key(p_topics))
    /\ P_Return(Success(MemValue(p_cache, Layer3Key(p_topics))))
    /\ p_cache' = MemoryHit(p_cache, Layer3Key(p_topics))
    /\ UNCHANGED <<p_sumtok, p_chunks, p_idx, p_summaries, p_tasks, p_topic,
                   p_tokens, p_topics, p_computed, p_prev, p_runs>>
    /\ PipelineOthers

\* summarize_layer3, the final summary generated and cached
\* (recursive_sum.py 97-103, 188-212)
P_Layer3Generate ==
    /\ p_pc = "layer3"
    /\ ~MemHas(p_cache, Layer3Key(p_topics))
    /\ P_Return(Success(FinalSummary(p_topics)))
    /\ p_cache' = AddToMemory(p_cache, DefaultCapacity, Layer3Key(p_topics),
                              FinalSummary(p_topics))
    /\ p_computed' = p_computed + 1
    /\ UNCHANGED <<p_sumtok, p_chunks, p_idx, p_summaries, p_tasks, p_topic,
                   p_tokens, p_topics, p_prev, p_runs>>
    /\ PipelineOthers

PipelineNext ==
    \/ \E cs \in ChunkLists : P_Start(cs)
    \/ P_NoMessages
    \/ P_QueryRaises
    \/ P_Layer1Hit
    \/ P_Layer1Task
    \/ \E i \in 1..MaxChunks : P_SummarizeChunk(i)
    \/ \E i \in 1..MaxChunks : P_SummarizeChunkFails(i)
    \/ P_Gather
    \/ P_Layer2Join
    \/ P_Layer2NewTopic
    \/ P_Layer2Last
    \/ P_Layer3Hit
    \/ P_Layer3Generate

SpecPipeline == PipelineInit /\ [][PipelineNext]_vars

(***************************************************************************)
(* Properties of the three-layer pipeline                                  *)
(***************************************************************************)
\* the outcome a returned dict stands for
PipelineOutcome(result) ==
    CASE result.success -> "summary"
      [] result.message = "no_messages" -> "no_data"
      [] result.message \in {"base_failed", "topic_failed", "final_failed"}
            -> "generation_failed"
      [] result.message = ExceptionText -> "exception_message"
      [] OTHER -> "none"

FourOutcomes == {"summary", "no_data", "invalid_range", "generation_failed"}

\* C11 as stated: every request ends in one of the four outcomes (a
\* Summary, no_data, invalid_range, generation_failed); an internal error
\* never gives a fifth kind of result such as a raw exception message.
C11_OneOfFourOutcomes ==
    p_pc = "done" => PipelineOutcome(p_result) \in FourOutcomes

\* the Layer-1 summary that belongs to a chunk (None for the empty chunk)
SummaryOf(chunk) ==
    IF chunk.count = 0 THEN NoneSummary
    ELSE BaseSummary(chunk, p_sumtok[chunk.id])

\* C16 as stated: the list summarize_layer1 returns is in the order of the
\* input chunks, the i-th summary belonging to the i-th chunk (or being the
\* None of its failed task), whatever chunks were found in the cache.
C16_Layer1OrderKept ==
    p_pc \in {"layer2", "layer3", "done"} =>
        /\ Len(p_summaries) = Len(p_chunks)
        /\ \A i \in 1..Len(p_chunks) :
              p_summaries[i] \in {SummaryOf(p_chunks[i]), NoneSummary}

\* C17 as stated: when some but not all Layer-1 units of a request fail,
\* exactly the failed units are left out of the input of Layer 2, every
\* other unit's summary is in it, and the request ends with a Summary.
C17_FailedUnitsDropped ==
    (/\ p_pc \in {"layer2", "layer3", "done"}
     /\ FailedUnits # {}
     /\ Cardinality(FailedUnits) < Len(p_chunks))
    => /\ NoneSummary \notin Range(p_summaries)
       /\ Len(p_summaries) = Len(p_chunks) - Cardinality(FailedUnits)
       /\ p_pc = "done" => p_result.success

\* the group summarize_layer2 hands to _merge_topic_summaries in this step
\* has exactly one summary, and the merge gave a result
OneSummaryGroupMerged ==
    /\ p_pc = "layer2"
    /\ Len(p_topic) = 1
    /\ p_topics' # p_topics

\* C18 as stated: a group of exactly one Layer-1 summary passes through
\* Layer 2 unchanged; the output for the group is that same summary and no
\* summary is generated for it.
C18_SingleGroupPassesThrough ==
    [][OneSummaryGroupMerged =>
          /\ p_topics' = Append(p_topics, p_topic[1])
          /\ p_computed' = p_computed]_vars

\* the summaries the Layer-1 tasks of the request generated
Layer1Generated ==
    Cardinality({i \in 1..Len(p_tasks) :
                    p_tasks[i].done /\ p_tasks[i].result # NoneSummary})

\* content, time range and message count of a summary
Essence(summary) ==
    <<summary.kind, summary.start, summary.end, summary.message_count>>

\* C19 as stated: a request whose Layer 1 yields exactly one summary ends
\* with a Summary that has the content, time range and message count of
\* that summary, and generates nothing at Layer 2 or Layer 3.
C19_SingleSummaryIdentity ==
    (/\ p_pc = "done"
     /\ Len(p_summaries) = 1
     /\ p_summaries[1] # NoneSummary)
    => /\ p_result.success
       /\ Essence(p_result.summary) = Essence(p_summaries[1])
       /\ p_computed = Layer1Generated

\* the earliest start and the latest end among the summaries of a list
EarliestStart(summaries) ==
    CHOOSE t \in {summaries[k].start : k \in 1..Len(summaries)} :
        \A k \in 1..Len(summaries) : t <= summaries[k].start
LatestEnd(summaries) ==
    CHOOSE t \in {summaries[k].end : k \in 1..Len(summaries)} :
        \A k \in 1..Len(summaries) : t >= summaries[k].end

\* the time range of a summary spans those of the list it was made from
Spans(merged, summaries) ==
    /\ merged.start = EarliestStart(summaries)
    /\ merged.end = LatestEnd(summaries)

\* C20 as stated: a summary merged at Layer 2 and the final summary of
\* Layer 3 start at the earliest start and end at the latest end of their
\* input summaries, whatever the order of the input list.
C20_MergedRangeSpansInputs ==
    [][/\ (p_pc = "layer2" /\ p_topics' # p_topics)
          => Spans(p_topics'[Len(p_topics')], p_topic)
       /\ (p_pc = "layer3" /\ p_pc' = "done")
          => Spans(p_result'.summary, p_topics)]_vars

\* the number of messages handed to Layer 1
MessagesHandedOver ==
    SumSeq([k \in 1..Len(p_chunks) |-> p_chunks[k].count])

\* C21: a request no unit of which failed and which returned a Summary
\* reports as message_count the number of messages handed to Layer 1, the
\* sum of the sizes of its chunks.
C21_MessageCountIsGrandSum ==
    (/\ p_pc = "done"
     /\ p_result.success
     /\ FailedUnits = {})
    => p_result.summary.message_count = MessagesHandedOver

\* a request over two chunks whose summaries fell into two topic groups
\* returned a Summary
C21_Witness ==
    /\ p_pc = "done"
    /\ p_result.success
    /\ FailedUnits = {}
    /\ Len(p_chunks) = 2
    /\ Len(p_topics) = 2

\* the steps of summarize_history from one stage to another; "done" stands
\* for Done and for Failed, and chunks are collected in the step that leaves
\* "idle" or "done"
StageOrder ==
    {<<"idle", "layer1">>, <<"idle", "done">>,
     <<"done", "layer1">>, <<"done", "done">>,
     <<"layer1", "layer2">>, <<"layer1", "done">>,
     <<"layer2", "layer3">>, <<"layer2", "done">>,
     <<"layer3", "done">>}

\* every chunk of the request has its Layer-1 result in the list
Layer1Complete ==
    /\ \A i \in 1..Len(p_tasks) : p_tasks[i].done
    /\ Len(p_summaries) = Len(p_chunks)

\* a step that puts a summary into a topic group or appends a merged group
GroupStep ==
    \/ p_topic' \notin {p_topic, <<>>}
    \/ p_topics' \notin {p_topics, <<>>}

\* C22: the stages follow one another in the order layer1, layer2, layer3,
\* done (or end early, failed); no group is formed or merged before every
\* Layer-1 task of the request has returned, and Layer 3 produces its
\* summary only after every Layer-1 summary went through Layer 2, the list
\* of topic summaries being complete.
C22_LayersAreBarriers ==
    [][/\ p_pc' # p_pc => <<p_pc, p_pc'>> \in StageOrder
       /\ GroupStep => (p_pc = "layer2" /\ Layer1Complete)
       /\ p_pc' \in {"layer2", "layer3"} => Layer1Complete'
       /\ p_pc = "layer3" =>
             /\ p_idx > Len(p_summaries)
             /\ p_topics' \in {p_topics, <<>>}]_vars

\* a request with two Layer-1 tasks went through the three layers
C22_Witness ==
    /\ p_pc = "done"
    /\ p_result.success
    /\ Len(p_tasks) = 2
    /\ Layer1Complete
    /\ Len(p_topics) >= 1

\* summarize_layer1 goes past a chunk whose summary is not in the cache
Layer1MissStep ==
    /\ p_pc = "layer1"
    /\ p_idx <= Len(p_chunks)
    /\ p_idx' = p_idx + 1
    /\ \A e \in Range(p_cache) : e.key # <<"sum_l1", p_chunks[p_idx]>>

\* the task i of the request returns a summary in this step
TaskReturns(i) ==
    /\ i \in 1..Len(p_tasks')
    /\ ~p_tasks[i].done
    /\ p_tasks'[i].done
    /\ p_tasks'[i].result # NoneSummary

C3_WarmRerunIdempotent ==
    (/\ p_pc = "done"
     /\ p_prev.chunks = p_chunks
     /\ p_prev.result.success
     /\ ~p_prev.failed)
    => /\ p_computed = 0
       /\ p_result = p_prev.result

(***************************************************************************)
(* The parser's inputs                                                     *)
(***************************************************************************)
\* the characters of the expressions tried
ExprAlphabet == {"0", "1", "2", "5", "-", "h", "H", "d", "w", "m", "x"}

Expressions == UNION {[1..n -> ExprAlphabet] : n \in 0..MaxExprLen}

ParserInit ==
    /\ expression \in Expressions
    /\ parsed = NoDuration
    /\ ppc = "ready"
    /\ messages = <<>>
    /\ max_tokens = 1
    /\ chunks = <<>>
    /\ cpc = "idle"
    /\ SummarizeIdle
    /\ CacheIdle
    /\ PipelineIdle
    /\ MonitorIdle

\* a caller evaluates self._parse_time_range(expression)
ParseTimeRange ==
    /\ ppc = "ready"
    /\ parsed' = _parse_time_range(expression)
    /\ ppc' = "done"
    /\ UNCHANGED expression
    /\ UNCHANGED <<chunkerVars, summarizeVars, cacheVars, pipelineVars, monitorVars>>

ParserNext == ParseTimeRange

SpecParser == ParserInit /\ [][ParserNext]_vars

(***************************************************************************)
(* Properties of the parser                                                *)
(***************************************************************************)
ExprUnit == Lower(expression[Len(expression)])
ExprMagnitude == ParseInt(SubSeq(expression, 1, Len(expression) - 1))

\* C6: whenever _parse_time_range returns a duration it is at most 24 hours:
\* an hour magnitude above 24 gives 24 hours, a day magnitude above 1 gives
\* 1 day, and every w or m expression gives exactly 1 day.
C6_DurationCapped ==
    (ppc = "done" /\ parsed.ok) =>
        /\ parsed.hours <= 24
        /\ (ExprUnit = "h" /\ ExprMagnitude.val > 24) => parsed.hours = 24
        /\ (ExprUnit = "d" /\ ExprMagnitude.val > 1) => parsed.hours = 24
        /\ ExprUnit \in {"w", "m"} => parsed.hours = 24

\* C6 witness: "25h" was parsed and gave 24 hours
C6_Witness ==
    /\ ppc = "done"
    /\ expression = <<"2", "5", "h">>
    /\ parsed = Duration(24)

\* an integer magnitude followed by one of the unit characters h, d, w, m
WellFormed(tr) ==
    /\ Len(tr) >= 2
    /\ Lower(tr[Len(tr)]) \in {"h", "d", "w", "m"}
    /\ ParseInt(SubSeq(tr, 1, Len(tr) - 1)).ok

\* C7: _parse_time_range returns None for every malformed expression (a
\* non-numeric magnitude, a missing or unknown unit, the empty string) and
\* a duration only for an integer magnitude followed by h, d, w or m.
C7_MalformedIsInvalid ==
    ppc = "done" => (parsed.ok <=> WellFormed(expression))


(***************************************************************************)
(* The chunker's inputs                                                    *)
(***************************************************************************)
\* message contents: plain text of 1..4 tokens, text with sentence and
\* clause separators, a short sentence or clause followed by a longer one,
\* and text that is only separators or blanks
ContentPool ==
    { <<"a">>, <<"a", "b">>, <<"a", "b", "c">>, <<"a", "b", "c", "d">>,
      <<"a", ".", "b">>, <<"a", ";", "b", ".">>, <<".", ".", ".", ".">>,
      <<" ", " ", " ", " ">>,
      <<"a", ".", "b", "c">>, <<"a", ";", "b", "c">> }

ContentLists == UNION {[1..n -> ContentPool] : n \in 0..MaxMsgs}

\* the messages of a list carry their position as id
MkMessages(cs) == [i \in 1..Len(cs) |-> [id |-> i, content |-> cs[i]]]

ChunkerInit ==
    /\ messages \in {MkMessages(cs) : cs \in ContentLists}
    /\ max_tokens \in 1..MaxBudget
    /\ chunks = <<>>
    /\ cpc = "ready"
    /\ ParserIdle
    /\ SummarizeIdle
    /\ CacheIdle
    /\ PipelineIdle
    /\ MonitorIdle

\* a caller awaits chunker.split_by_tokens(messages, max_tokens)
SplitByTokens ==
    /\ cpc = "ready"
    /\ chunks' = split_by_tokens(messages, max_tokens)
    /\ cpc' = "done"
    /\ UNCHANGED <<messages, max_tokens>>
    /\ UNCHANGED <<parserVars, summarizeVars, cacheVars, pipelineVars, monitorVars>>

ChunkerNext == SplitByTokens

SpecChunker == ChunkerInit /\ [][ChunkerNext]_vars

(***************************************************************************)
(* split_by_tokens over a list that may hold an entry that is not a dict:  *)
(* message.get raises AttributeError inside the try block.                 *)
(***************************************************************************)
\* the messages of a list, the one at position bad (if any) not being a dict
MkEntries(cs, bad) ==
    [i \in 1..Len(cs) |-> [id |-> i, content |-> cs[i], is_dict |-> i # bad]]

\* the position of the first entry the loop cannot process, 0 if none
FirstRaising(msgs) ==
    IF \A i \in 1..Len(msgs) : msgs[i].is_dict THEN 0
    ELSE CHOOSE i \in 1..Len(msgs) :
            /\ ~msgs[i].is_dict
            /\ \A j \in 1..(i - 1) : msgs[j].is_dict

\* split_by_tokens with its exception handler: whatever the loop had
\* accumulated, the handler returns [[]] (chunker.py 23, 60-62)
split_by_tokens_try(msgs, maxTok) ==
    IF FirstRaising(msgs) # 0 THEN <<MkChunk(<<>>, FALSE)>>
    ELSE split_by_tokens(msgs, maxTok)

ChunkerTryInit ==
    /\ messages \in {MkEntries(cs, bad) :
                        cs \in ContentLists, bad \in 0..MaxMsgs}
    /\ max_tokens \in 1..MaxBudget
    /\ chunks = <<>>
    /\ cpc = "ready"
    /\ ParserIdle
    /\ SummarizeIdle
    /\ CacheIdle
    /\ PipelineIdle
    /\ MonitorIdle

\* a caller awaits chunker.split_by_tokens(messages, max_tokens)
SplitByTokensTry ==
    /\ cpc = "ready"
    /\ chunks' = split_by_tokens_try(messages, max_tokens)
    /\ cpc' = "done"
    /\ UNCHANGED <<messages, max_tokens>>
    /\ UNCHANGED <<parserVars, summarizeVars, cacheVars, pipelineVars, monitorVars>>

ChunkerTryNext == SplitByTokensTry

SpecChunkerTry == ChunkerTryInit /\ [][ChunkerTryNext]_vars

\* what the loop had accumulated when it reached the k-th message: the
\* chunks already closed, and those with the running chunk added
ClosedBefore(k) ==
    SplitLoop([chunks |-> <<>>, current_chunk |-> <<>>, current_tokens |-> 0],
              SubSeq(messages, 1, k - 1), max_tokens).chunks
AccumulatedBefore(k) == split_by_tokens(SubSeq(messages, 1, k - 1), max_tokens)

\* C24 as stated: when an internal error occurs at the k-th message after
\* chunks have been closed, the call returns the chunks accumulated from
\* the messages before it (with or without the chunk still running); the
\* closed chunks are not discarded.
C24_PartialChunksReturned ==
    (/\ cpc = "done"
     /\ FirstRaising(messages) # 0
     /\ ClosedBefore(FirstRaising(messages)) # <<>>)
    => chunks \in {ClosedBefore(FirstRaising(messages)),
                   AccumulatedBefore(FirstRaising(messages))}

(***************************************************************************)
(* Properties of the chunker                                               *)
(***************************************************************************)
ChunkMsgs(cs) == Flatten([k \in 1..Len(cs) |-> cs[k].msgs])

SelectChunks(cs, forced) == SelectSeq(cs, LAMBDA c : c.forced = forced)

ChunkTokens(c) ==
    SumSeq([k \in 1..Len(c.msgs) |-> calculate_tokens(c.msgs[k].content)])

FitsBudget(m) == calculate_tokens(m.content) <= max_tokens

\* C1 as stated: for every non-empty message list and every max_tokens > 0
\* the messages of the returned chunks, concatenated in chunk order, are
\* the input list itself (nothing duplicated, dropped or reordered).
C1_ConcatEqualsInput ==
    (cpc = "done" /\ messages # <<>>) => ChunkMsgs(chunks) = messages

\* C1 amended: the messages that fit the budget are returned exactly once
\* and in their input order by the chunks that are not force-split
\* fragments; a force-split chunk holds one fragment, a copy of an oversized
\* input message with another content; and over all chunks the messages
\* keep the input order.  With no oversized message the concatenation is
\* the input list.
C1_FittingMessagesKept ==
    cpc = "done" =>
        /\ ChunkMsgs(SelectChunks(chunks, FALSE)) = SelectSeq(messages, FitsBudget)
        /\ \A k \in 1..Len(chunks) :
              chunks[k].forced =>
                  /\ Len(chunks[k].msgs) = 1
                  /\ \E i \in 1..Len(messages) :
                        /\ ~FitsBudget(messages[i])
                        /\ chunks[k].msgs[1].id = messages[i].id
        /\ LET all == ChunkMsgs(chunks) IN
           \A i, j \in 1..Len(all) : i < j => all[i].id <= all[j].id
        /\ (\A i \in 1..Len(messages) : FitsBudget(messages[i]))
              => ChunkMsgs(chunks) = messages

\* C1 witness: a call that returned a closed two-message chunk and the
\* fragments of an oversized message
C1_Witness ==
    /\ cpc = "done"
    /\ \E k \in 1..Len(chunks) : chunks[k].forced
    /\ \E k \in 1..Len(chunks) : ~chunks[k].forced /\ Len(chunks[k].msgs) = 2

\* C2: every returned chunk that was not made by force-splitting a single
\* oversized message has a token count (the sum of calculate_tokens over
\* its messages' content) of at most max_tokens.
C2_ChunkWithinBudget ==
    cpc = "done" =>
        \A k \in 1..Len(chunks) :
            ~chunks[k].forced => ChunkTokens(chunks[k]) <= max_tokens

\* C2 witness: two chunks, the first filled to the budget by two messages
C2_Witness ==
    /\ cpc = "done"
    /\ Len(chunks) >= 2
    /\ ~chunks[1].forced
    /\ Len(chunks[1].msgs) = 2
    /\ ChunkTokens(chunks[1]) = max_tokens

\* the text of the fragments made of the message with id i, in chunk order
FragmentText(i) ==
    Flatten([k \in 1..Len(chunks) |->
                IF chunks[k].forced /\ chunks[k].msgs[1].id = i
                THEN chunks[k].msgs[1].content ELSE <<>>])

\* a text without its separators and blanks: the words of its sentences
\* and clauses, in order
Words(text) == SelectSeq(text, LAMBDA c : c \notin {".", ";", ",", " "})

\* C25 as stated: the fragments of a force-split message cover its whole
\* content in its order; no sentence or clause is dropped or moved
\* (separators and blanks, which the split rewrites, are left aside).
C25_FragmentsCoverContent ==
    cpc = "done" =>
        \A i \in 1..Len(messages) :
            ~FitsBudget(messages[i])
               => Words(FragmentText(i)) = Words(messages[i].content)

\* C26 as stated: every fragment made by force-splitting an oversized
\* message counts at most max_tokens tokens, whatever max_tokens > 0.
C26_FragmentsWithinBudget ==
    cpc = "done" =>
        \A k \in 1..Len(chunks) :
            chunks[k].forced => ChunkTokens(chunks[k]) <= max_tokens

\* the message with id i is in the k-th chunk, a chunk that is not a fragment
InChunk(k, i) ==
    /\ ~chunks[k].forced
    /\ \E j \in 1..Len(chunks[k].msgs) : chunks[k].msgs[j].id = i

\* the tokens the k-th chunk held once the message with id i was in it
RunningTokens(k, i) ==
    ChunkTokens([msgs |-> SelectSeq(chunks[k].msgs, LAMBDA m : m.id <= i)])

\* the scenario of the specification: three messages of 10 tokens each
TenTokenMessages ==
    [i \in 1..3 |-> [id |-> i, content |-> [j \in 1..10 |-> "a"]]]

\* C14: split_by_tokens is greedy and maximal: of two successive messages
\* that fit the budget the second one starts the next chunk exactly when
\* its tokens added to the running chunk's total exceed max_tokens, and
\* joins the running chunk otherwise; three messages of 10 tokens with
\* max_tokens 25 give the chunks [msg1, msg2] and [msg3].
C14_GreedyMaximal ==
    /\ cpc = "done" =>
          \A i \in 1..(Len(messages) - 1) :
              (FitsBudget(messages[i]) /\ FitsBudget(messages[i + 1])) =>
                  \E k \in 1..Len(chunks), n \in 1..Len(chunks) :
                      /\ InChunk(k, i)
                      /\ InChunk(n, i + 1)
                      /\ n \in {k, k + 1}
                      /\ (n = k + 1) <=>
                            (RunningTokens(k, i)
                               + calculate_tokens(messages[i + 1].content)
                                  > max_tokens)
    /\ split_by_tokens(TenTokenMessages, 25)
          = << MkChunk(<<TenTokenMessages[1], TenTokenMessages[2]>>, FALSE),
               MkChunk(<<TenTokenMessages[3]>>, FALSE) >>

\* C14 witness: two messages share the first chunk without filling it, and
\* the third one, which fits the budget but not the room left, starts the
\* second chunk
C14_Witness ==
    /\ cpc = "done"
    /\ Len(messages) = 3
    /\ Len(chunks) = 2
    /\ InChunk(1, 1) /\ InChunk(1, 2) /\ InChunk(2, 3)
    /\ ChunkTokens(chunks[1]) < max_tokens
    /\ FitsBudget(messages[3])

(***************************************************************************)
(* WeiboMonitor: the two monitor tasks after start()                       *)
(***************************************************************************)
MonitorOthers ==
    UNCHANGED <<chunkerVars, parserVars, summarizeVars, cacheVars, pipelineVars>>

\* the state start() leaves: _running set, both tasks created
\* (monitor.py 63-64, 72, 384-394); no id was on file
MonitorInit ==
    /\ m_running = TRUE
    /\ m_monitoring_old = TRUE
    /\ m_processed = {}
    /\ m_calls = [i \in MsgIds |-> 0]
    /\ m_failed = [i \in MsgIds |-> 0]
    /\ m_owner = "none"
    /\ m_task = [t \in MonitorTasks |-> TaskAt("while", <<>>, 0)]
    /\ m_count = 0
    /\ m_polls = 0
    /\ m_stopped = FALSE
    /\ messages = <<>>
    /\ max_tokens = 1
    /\ chunks = <<>>
    /\ cpc = "idle"
    /\ ParserIdle
    /\ SummarizeIdle
    /\ CacheIdle
    /\ PipelineIdle

\* the task t is at pc and may run: the loop is free or already its own
Step(t, pc) ==
    /\ m_task[t].pc = pc
    /\ m_owner \in {t, "none"}

\* the task t goes on to pc, having passed the await (or the plain code)
\* at point
Goto(t, pc, batch, msg, point) ==
    /\ m_task' = [m_task EXCEPT ![t] = TaskAt(pc, batch, msg)]
    /\ m_owner' = IF Suspends(point) THEN "none" ELSE t

\* the task t returns
End(t) ==
    /\ m_task' = [m_task EXCEPT ![t] = TaskAt("ended", <<>>, 0)]
    /\ m_owner' = "none"

\* monitor_old_messages: `while self._running and self._monitoring_old`
\* (monitor.py 426)
M_OldWhile ==
    /\ Step("old", "while")
    /\ IF m_running /\ m_monitoring_old
       THEN Goto("old", "request", <<>>, 0, "while")
       ELSE End("old")
    /\ UNCHANGED <<m_running, m_monitoring_old, m_processed, m_calls, m_failed,
                   m_count, m_polls, m_stopped>>
    /\ MonitorOthers

\* monitor_old_messages: the server answers the query; an empty list ends
\* the backfill and clears _running (monitor.py 448-466)
M_OldRequest ==
    /\ Step("old", "request")
    /\ m_polls < MaxPolls
    /\ m_polls' = m_polls + 1
    /\ \E b \in Batches :
          IF b = <<>>
          THEN /\ m_running' = FALSE
               /\ End("old")
          ELSE /\ Goto("old", "batch", b, 0, "request_old")
               /\ UNCHANGED m_running
    /\ UNCHANGED <<m_monitoring_old, m_processed, m_calls, m_failed, m_count,
                   m_stopped>>
    /\ MonitorOthers

\* monitor_old_messages: the query fails (status other than 200, or an
\* exception): the task goes to sleep (monitor.py 477-485)
M_OldRequestFails ==
    /\ Step("old", "request")
    /\ m_polls < MaxPolls
    /\ m_polls' = m_polls + 1
    /\ Goto("old", "sleep", <<>>, 0, "request_old")
    /\ UNCHANGED <<m_running, m_monitoring_old, m_processed, m_calls, m_failed,
                   m_count, m_stopped>>
    /\ MonitorOthers

\* monitor_old_messages: await asyncio.sleep, then the loop test again
\* (monitor.py 481)
M_OldSleep ==
    /\ Step("old", "sleep")
    /\ Goto("old", "while", <<>>, 0, "sleep")
    /\ UNCHANGED <<m_running, m_monitoring_old, m_processed, m_calls, m_failed,
                   m_count, m_polls, m_stopped>>
    /\ MonitorOthers

\* monitor_new_messages: `while self._running` (monitor.py 510)
M_NewWhile ==
    /\ Step("new", "while")
    /\ IF m_running
       THEN Goto("new", "request", <<>>, 0, "while")
       ELSE End("new")
    /\ UNCHANGED <<m_running, m_monitoring_old, m_processed, m_calls, m_failed,
                   m_count, m_polls, m_stopped>>
    /\ MonitorOthers

\* monitor_new_messages: the long poll is sent and answered with a list of
\* messages, empty on a timeout or an error (monitor.py 512-545)
M_NewRequest ==
    /\ Step("new", "request")
    /\ m_polls < MaxPolls
    /\ m_polls' = m_polls + 1
    /\ \E b \in Batches : Goto("new", "batch", b, 0, "request_new")
    /\ UNCHANGED <<m_running, m_monitoring_old, m_processed, m_calls, m_failed,
                   m_count, m_stopped>>
    /\ MonitorOthers

\* the for loop over the messages received hands the next one to
\* process_message (monitor.py 469-470, 533-535)
M_NextMessage(t) ==
    /\ Step(t, "batch")
    /\ m_task[t].batch # <<>>
    /\ Goto(t, "check", Tail(m_task[t].batch), Head(m_task[t].batch), "for")
    /\ UNCHANGED <<m_running, m_monitoring_old, m_processed, m_calls, m_failed,
                   m_count, m_polls, m_stopped>>
    /\ MonitorOthers

\* the for loop is through: the old task goes to sleep, the new task polls
\* again (monitor.py 481, 510)
M_BatchDone(t) ==
    /\ Step(t, "batch")
    /\ m_task[t].batch = <<>>
    /\ Goto(t, IF t = "old" THEN "sleep" ELSE "while", <<>>, 0, "for")
    /\ UNCHANGED <<m_running, m_monitoring_old, m_processed, m_calls, m_failed,
                   m_count, m_polls, m_stopped>>
    /\ MonitorOthers

\* process_message: `if msg_id in self.processed_messages: return None`
\* (monitor.py 302-303)
M_Check(t) ==
    /\ Step(t, "check")
    /\ Goto(t, IF m_task[t].msg \in m_processed THEN "returned" ELSE "status",
            m_task[t].batch, m_task[t].msg, "check")
    /\ UNCHANGED <<m_running, m_monitoring_old, m_processed, m_calls, m_failed,
                   m_count, m_polls, m_stopped>>
    /\ MonitorOthers

\* process_message: await sqlite_db.get_user_status; its answer, a dict or
\* None, never equals "no_record" (monitor.py 336-338, sqlite_db.py 78-91)
M_UserStatus(t) ==
    /\ Step(t, "status")
    /\ Goto(t, "add", m_task[t].batch, m_task[t].msg, "status")
    /\ UNCHANGED <<m_running, m_monitoring_old, m_processed, m_calls, m_failed,
                   m_count, m_polls, m_stopped>>
    /\ MonitorOthers

\* process_message: await message_db.add_message, await
\* sqlite_db.add_message (monitor.py 341-342)
M_Store(t) ==
    /\ Step(t, "add")
    /\ m_calls' = [m_calls EXCEPT ![m_task[t].msg] = @ + 1]
    /\ Goto(t, "mark", m_task[t].batch, m_task[t].msg, "add")
    /\ UNCHANGED <<m_running, m_monitoring_old, m_processed, m_failed, m_count,
                   m_polls, m_stopped>>
    /\ MonitorOthers

\* process_message: sqlite_db.add_message raises; the id is not recorded
\* and process_message returns None (monitor.py 342, 347-349)
M_StoreRaises(t) ==
    /\ Step(t, "add")
    /\ m_failed[m_task[t].msg] = 0
    /\ m_calls' = [m_calls EXCEPT ![m_task[t].msg] = @ + 1]
    /\ m_failed' = [m_failed EXCEPT ![m_task[t].msg] = 1]
    /\ Goto(t, "returned", m_task[t].batch, m_task[t].msg, "add")
    /\ UNCHANGED <<m_running, m_monitoring_old, m_processed, m_count, m_polls,
                   m_stopped>>
    /\ MonitorOthers

\* process_message: the id is added to processed_messages and saved; a new
\* message that mentions the bot is answered (monitor.py 345-346, 352-372)
M_Mark(t) ==
    /\ Step(t, "mark")
    /\ m_processed' = m_processed \cup {m_task[t].msg}
    /\ \E mention \in BOOLEAN :
          Goto(t, IF t = "new" /\ mention THEN "reply" ELSE "returned",
               m_task[t].batch, m_task[t].msg, "mark")
    /\ UNCHANGED <<m_running, m_monitoring_old, m_calls, m_failed, m_count,
                   m_polls, m_stopped>>
    /\ MonitorOthers

\* process_message: await ai_handler.ai_process_message and send_message
\* (monitor.py 373-376)
M_Reply ==
    /\ Step("new", "reply")
    /\ Goto("new", "returned", m_task["new"].batch, m_task["new"].msg, "reply")
    /\ UNCHANGED <<m_running, m_monitoring_old, m_processed, m_calls, m_failed,
                   m_count, m_polls, m_stopped>>
    /\ MonitorOthers

\* monitor_old_messages after process_message: the message is counted, and
\* at the limit _monitoring_old is cleared and the for loop left
\* (monitor.py 471-475)
M_OldReturned ==
    /\ Step("old", "returned")
    /\ m_count' = m_count + 1
    /\ IF m_count + 1 >= HistoryLimit
       THEN /\ m_monitoring_old' = FALSE
            /\ Goto("old", "sleep", <<>>, 0, "for")
       ELSE /\ Goto("old", "batch", m_task["old"].batch, 0, "for")
            /\ UNCHANGED m_monitoring_old
    /\ UNCHANGED <<m_running, m_processed, m_calls, m_failed, m_polls,
                   m_stopped>>
    /\ MonitorOthers

\* monitor_new_messages after process_message (monitor.py 533-536)
M_NewReturned ==
    /\ Step("new", "returned")
    /\ Goto("new", "batch", m_task["new"].batch, 0, "for")
    /\ UNCHANGED <<m_running, m_monitoring_old, m_processed, m_calls, m_failed,
                   m_count, m_polls, m_stopped>>
    /\ MonitorOthers

\* stop(), called from another task while the loop is free
\* (monitor.py 550-553)
M_Stop ==
    /\ m_owner = "none"
    /\ ~m_stopped
    /\ m_running' = FALSE
    /\ m_stopped' = TRUE
    /\ UNCHANGED <<m_monitoring_old, m_processed, m_calls, m_failed, m_owner,
                   m_task, m_count, m_polls>>
    /\ MonitorOthers

MonitorNext ==
    \/ M_OldWhile
    \/ M_OldRequest
    \/ M_OldRequestFails
    \/ M_OldSleep
    \/ M_NewWhile
    \/ M_NewRequest
    \/ \E t \in MonitorTasks : M_NextMessage(t)
    \/ \E t \in MonitorTasks : M_BatchDone(t)
    \/ \E t \in MonitorTasks : M_Check(t)
    \/ \E t \in MonitorTasks : M_UserStatus(t)
    \/ \E t \in MonitorTasks : M_Store(t)
    \/ \E t \in MonitorTasks : M_StoreRaises(t)
    \/ \E t \in MonitorTasks : M_Mark(t)
    \/ M_Reply
    \/ M_OldReturned
    \/ M_NewReturned
    \/ M_Stop

SpecMonitor == MonitorInit /\ [][MonitorNext]_vars

C29_BackfillEndKeepsRunning ==
    (m_task["old"].pc = "ended" /\ ~m_stopped)
        => (m_running /\ m_task["new"].pc # "ended")

====
